---- MODULE Spec2Model ----
(***************************************************************************)
(* A model of the l7-loadbalancer core: the lock-free SPSC and MPMC ring   *)
(* buffers (include/core/ring_buffer.h) and the consistent-hash ring with  *)
(* its MurmurHash3 (include/lb/consistent_hash.h).                         *)
(*                                                                         *)
(* Each component has its own variables, its own initial predicate and its *)
(* own next-state relation; a specification of one component leaves the    *)
(* variables of the others at their initial values.                        *)
(***************************************************************************)
EXTENDS Integers, Sequences, FiniteSets, TLC

VARIABLES
    \* ---- SPSCRingBuffer<T, Size> (ring_buffer.h:72-220) ----
    spsc_head,          \* head_  (consumer's index)
    spsc_tail,          \* tail_  (producer's index)
    spsc_buffer,        \* buffer_
    p_pc,               \* producer thread: position inside push
    p_item,             \* push: argument item
    p_current_tail,     \* push: local current_tail
    p_next_tail,        \* push: local next_tail
    p_ret,              \* push: the value the last call returned
    c_pc,               \* consumer thread: position inside pop
    c_current_head,     \* pop: local current_head
    c_item,             \* pop: out-parameter item
    c_ret,              \* pop: the value the last call returned
    spsc_pushed,        \* history: items of the pushes that returned true
    spsc_popped,        \* history: items of the pops that returned true
    \* ---- MPMCRingBuffer<T, Size> (ring_buffer.h:239-375) ----
    mpmc_head,          \* head_
    mpmc_tail,          \* tail_
    mpmc_sequence,      \* buffer_[i].sequence
    mpmc_data,          \* buffer_[i].data
    m_pc,               \* per thread: position inside push / pop
    m_pos,              \* per thread: local pos
    m_item,             \* per thread: push's argument / pop's out-parameter
    m_sure,             \* history, per thread: at every moment of the call the
                        \* queue certainly held an item (pop) / a free slot (push)
    mpmc_accepted,      \* history: how often each value was accepted by a push
    mpmc_returned,      \* history: how often each value was returned by a pop
    \* ---- ConsistentHashRing (consistent_hash.h:93-168) ----
    ring_,              \* ring_ : position (hash) -> server_id
    g_server_id,        \* the caller's variable bound to get_server's server_id
    g_ret,              \* the value the last get_server returned
    ring_op,            \* history: the last operation and its arguments
    ring_status,        \* history, per id: "never" added, "added", or "removed"
    \* ---- RealServerManager (real_server.h), SessionManager (session.h) and
    \*      the callers LoadBalancer::handle_loadbalance / handle_accept ----
    servers_,           \* RealServerManager::servers_ : id -> [weight, status]
    hash_ring_,         \* RealServerManager::hash_ring_.ring_ : position -> id
    reg_mutex,          \* RealServerManager::mutex_ : the thread holding it
    hring_mutex,        \* hash_ring_.mutex_ : the thread holding it
    sess_mutex,         \* SessionManager::mutex_ : the thread holding it
    sessions_,          \* SessionManager::sessions_ : tuple -> Session
    active_sessions,    \* SessionManager::stats_.active_sessions
    timeout_sec_,       \* SessionManager::timeout_sec_
    clock,              \* steady_clock::now(), in nanoseconds
    ctl,                \* control-plane thread: position and arguments
    wk,                 \* worker thread: position and locals
    lb_hist,            \* history of the last operation
    \* ---- ProtocolParser::parse (ip.h:125-164) ----
    pkt,                \* the frame handed to parse: its length and header fields
    meta,               \* the caller's PacketMeta
    parse_ret,          \* "unparsed", or what parse returned
    \* ---- IpChecksum (ip.h:88-120) ----
    ck,                 \* the last header checksummed and the results
    \* ---- LoadBalancer (loadbalancer.h:30-241) ----
    running_,           \* LoadBalancer::running_
    stats_,             \* LoadBalancer::stats_
    pp,                 \* the last process_packet call: its frame and result, and
                        \* the backend given to forward at loadbalancer.h:205
    \* ---- the L7 proxy (main.cpp) ----
    main_pc,            \* where main is: "start", "running" (in ff_run), "exited"
    g_running,          \* g_running
    g_epfd,             \* g_epfd
    g_listen_fd,        \* g_listen_fd
    g_stats,            \* g_stats
    g_connections,      \* g_connections: fd -> Connection*
    heap,               \* the Connection objects allocated so far, by address
    open_fds,           \* the descriptors open in the socket layer
    epoll_fds,          \* the descriptors registered with g_epfd
    ev,                 \* the last event handled: its descriptor, its kind, and
                        \* whether it was EPOLLOUT on a backend not yet connected
    uaf,                \* a freed Connection was read
    \* ---- the mutexes of RealServerManager and its ring, any caller ----
    lk_owner,           \* mutex -> the thread that holds it, or Unlocked
    lk_call,            \* thread -> the call it is in and the steps left
    \* ---- ff_loop's batch of events (main.cpp:394-402) ----
    batch               \* an event of the current batch that is still to be
                        \* handled: its descriptor and the Connection it was
                        \* generated for

spsc_vars == <<spsc_head, spsc_tail, spsc_buffer, p_pc, p_item, p_current_tail,
               p_next_tail, p_ret, c_pc, c_current_head, c_item, c_ret,
               spsc_pushed, spsc_popped>>

mpmc_vars == <<mpmc_head, mpmc_tail, mpmc_sequence, mpmc_data, m_pc, m_pos,
               m_item, m_sure, mpmc_accepted, mpmc_returned>>

ring_vars == <<ring_, g_server_id, g_ret, ring_op, ring_status>>

lb_vars == <<servers_, hash_ring_, reg_mutex, hring_mutex, sess_mutex, sessions_,
             active_sessions, timeout_sec_, clock, ctl, wk, lb_hist>>

parser_vars == <<pkt, meta, parse_ret>>

checksum_vars == <<ck>>

packet_vars == <<running_, stats_, pp>>

proxy_vars == <<main_pc, g_running, g_epfd, g_listen_fd, g_stats, g_connections, heap,
                open_fds, epoll_fds, ev, uaf>>

lock_vars == <<lk_owner, lk_call>>

batch_vars == <<batch>>

vars == <<spsc_vars, mpmc_vars, ring_vars, lb_vars, parser_vars, checksum_vars,
          packet_vars, proxy_vars, lock_vars, batch_vars>>

\* a step of one component leaves the other components alone
SPSCOnly ==
    UNCHANGED <<mpmc_vars, ring_vars, lb_vars, parser_vars, checksum_vars, packet_vars, proxy_vars, lock_vars, batch_vars>>
MPMCOnly ==
    UNCHANGED <<spsc_vars, ring_vars, lb_vars, parser_vars, checksum_vars, packet_vars, proxy_vars, lock_vars, batch_vars>>
RingOnly ==
    UNCHANGED <<spsc_vars, mpmc_vars, lb_vars, parser_vars, checksum_vars, packet_vars, proxy_vars, lock_vars, batch_vars>>
LBOnly ==
    UNCHANGED <<spsc_vars, mpmc_vars, ring_vars, parser_vars, checksum_vars, packet_vars, proxy_vars, lock_vars, batch_vars>>
ParserOnly ==
    UNCHANGED <<spsc_vars, mpmc_vars, ring_vars, lb_vars, checksum_vars, packet_vars, proxy_vars, lock_vars, batch_vars>>
ChecksumOnly ==
    UNCHANGED <<spsc_vars, mpmc_vars, ring_vars, lb_vars, parser_vars, packet_vars, proxy_vars, lock_vars, batch_vars>>
PacketOnly ==
    UNCHANGED <<spsc_vars, mpmc_vars, ring_vars, parser_vars, checksum_vars, proxy_vars,
                lock_vars, batch_vars>>
ProxyOnly ==
    UNCHANGED <<spsc_vars, mpmc_vars, ring_vars, lb_vars, parser_vars, checksum_vars,
                packet_vars, lock_vars, batch_vars>>
LockOnly ==
    UNCHANGED <<spsc_vars, mpmc_vars, ring_vars, lb_vars, parser_vars, checksum_vars,
                packet_vars, proxy_vars, batch_vars>>
\* a step of ff_loop that moves on in its batch
ProxyBatchOnly ==
    UNCHANGED <<spsc_vars, mpmc_vars, ring_vars, lb_vars, parser_vars, checksum_vars,
                packet_vars, lock_vars>>

(***************************************************************************)
(* Bit operations, as the code computes its index masks.                   *)
(***************************************************************************)
RECURSIVE BitAnd(_, _)
BitAnd(a, b) ==
    IF a = 0 \/ b = 0 THEN 0
    ELSE (IF a % 2 = 1 /\ b % 2 = 1 THEN 1 ELSE 0) + 2 * BitAnd(a \div 2, b \div 2)

(***************************************************************************)
(* SPSCRingBuffer                                                          *)
(***************************************************************************)
\* log2 of the template parameter Size (Size must be a power of two)
SPSCSizeLog == 2
\* the producer stops after this many accepted pushes
SPSCMaxPush == 6
\* the items the producer may push
SPSCValues == {1, 2}
\* T{}: the value of a value-initialised slot (buffer_.resize(Size))
SPSCDefault == 0

SPSCSize == 2 ^ SPSCSizeLog

\* (i + 1) & (Size - 1)
spsc_next(i) == BitAnd(i + 1, SPSCSize - 1)

\* a size() that forgets the wrap-around: tail - head
spsc_size_nowrap == spsc_tail - spsc_head
\* size(): (tail - head + Size) & (Size - 1)
spsc_size == BitAnd(spsc_tail - spsc_head + SPSCSize, SPSCSize - 1)
\* empty(): head == tail
spsc_empty == spsc_head = spsc_tail
\* full(): ((tail + 1) & (Size - 1)) == head
spsc_full == spsc_next(spsc_tail) = spsc_head
\* capacity(): Size - 1
spsc_capacity == SPSCSize - 1

SPSCInit ==
    /\ spsc_head = 0
    /\ spsc_tail = 0
    /\ spsc_buffer = [i \in 0..(SPSCSize - 1) |-> SPSCDefault]
    /\ p_pc = "idle"
    /\ p_item = SPSCDefault
    /\ p_current_tail = 0
    /\ p_next_tail = 0
    /\ p_ret = FALSE
    /\ c_pc = "idle"
    /\ c_current_head = 0
    /\ c_item = SPSCDefault
    /\ c_ret = FALSE
    /\ spsc_pushed = <<>>
    /\ spsc_popped = <<>>

p_locals == <<p_pc, p_item, p_current_tail, p_next_tail, p_ret>>
c_locals == <<c_pc, c_current_head, c_item, c_ret>>

\* push, line 100-101: the call starts; load tail_ (relaxed), compute next_tail
spsc_push_load ==
    /\ p_pc = "idle"
    /\ Len(spsc_pushed) < SPSCMaxPush
    /\ \E item \in SPSCValues : p_item' = item
    /\ p_current_tail' = spsc_tail
    /\ p_next_tail' = spsc_next(spsc_tail)
    /\ p_pc' = "check"
    /\ UNCHANGED <<spsc_head, spsc_tail, spsc_buffer, p_ret, c_locals,
                   spsc_pushed, spsc_popped>>
    /\ SPSCOnly

\* the full test of push, line 105: next_tail == head_.load(acquire)
\* (a full test that compares the wrong index: current_tail == head)
spsc_push_is_full_wrong_index == p_current_tail = spsc_head
spsc_push_is_full == p_next_tail = spsc_head

\* push, line 105-107: load head_ (acquire); full -> return false
spsc_push_check ==
    /\ p_pc = "check"
    /\ IF spsc_push_is_full
       THEN p_pc' = "idle" /\ p_ret' = FALSE
       ELSE p_pc' = "write" /\ UNCHANGED p_ret
    /\ UNCHANGED <<spsc_head, spsc_tail, spsc_buffer, p_item, p_current_tail,
                   p_next_tail, c_locals, spsc_pushed, spsc_popped>>
    /\ SPSCOnly

\* a push that writes the slot after the one it publishes: buffer_[next_tail] = item
spsc_push_write_next_slot ==
    /\ p_pc = "write"
    /\ spsc_buffer' = [spsc_buffer EXCEPT ![p_next_tail] = p_item]
    /\ p_pc' = "store"
    /\ UNCHANGED <<spsc_head, spsc_tail, p_item, p_current_tail, p_next_tail,
                   p_ret, c_locals, spsc_pushed, spsc_popped>>
    /\ SPSCOnly
\* push, line 110: buffer_[current_tail] = item
spsc_push_write ==
    /\ p_pc = "write"
    /\ spsc_buffer' = [spsc_buffer EXCEPT ![p_current_tail] = p_item]
    /\ p_pc' = "store"
    /\ UNCHANGED <<spsc_head, spsc_tail, p_item, p_current_tail, p_next_tail,
                   p_ret, c_locals, spsc_pushed, spsc_popped>>
    /\ SPSCOnly

\* push, line 113-115: tail_.store(next_tail, release); return true
spsc_push_store ==
    /\ p_pc = "store"
    /\ spsc_tail' = p_next_tail
    /\ p_pc' = "idle"
    /\ p_ret' = TRUE
    /\ spsc_pushed' = Append(spsc_pushed, p_item)
    /\ UNCHANGED <<spsc_head, spsc_buffer, p_item, p_current_tail, p_next_tail,
                   c_locals, spsc_popped>>
    /\ SPSCOnly

\* pop, line 148: the call starts; load head_ (relaxed)
spsc_pop_load ==
    /\ c_pc = "idle"
    /\ c_current_head' = spsc_head
    /\ c_pc' = "check"
    /\ UNCHANGED <<spsc_head, spsc_tail, spsc_buffer, p_locals, c_item, c_ret,
                   spsc_pushed, spsc_popped>>
    /\ SPSCOnly

\* pop, line 152-154: load tail_ (acquire); empty -> return false
spsc_pop_check ==
    /\ c_pc = "check"
    /\ IF c_current_head = spsc_tail
       THEN c_pc' = "idle" /\ c_ret' = FALSE
       ELSE c_pc' = "read" /\ UNCHANGED c_ret
    /\ UNCHANGED <<spsc_head, spsc_tail, spsc_buffer, p_locals, c_current_head,
                   c_item, spsc_pushed, spsc_popped>>
    /\ SPSCOnly

\* pop, line 157: item = std::move(buffer_[current_head]); the moved-from slot
\* keeps its value (a trivially copyable T) or is left value-initialised
spsc_pop_read ==
    /\ c_pc = "read"
    /\ c_item' = spsc_buffer[c_current_head]
    /\ \E left \in {spsc_buffer[c_current_head], SPSCDefault} :
          spsc_buffer' = [spsc_buffer EXCEPT ![c_current_head] = left]
    /\ c_pc' = "store"
    /\ UNCHANGED <<spsc_head, spsc_tail, p_locals, c_current_head, c_ret,
                   spsc_pushed, spsc_popped>>
    /\ SPSCOnly

\* pop, line 160-163: head_.store(next_head, release); return true
spsc_pop_store ==
    /\ c_pc = "store"
    /\ spsc_head' = spsc_next(c_current_head)
    /\ c_pc' = "idle"
    /\ c_ret' = TRUE
    /\ spsc_popped' = Append(spsc_popped, c_item)
    /\ UNCHANGED <<spsc_tail, spsc_buffer, p_locals, c_current_head, c_item,
                   spsc_pushed>>
    /\ SPSCOnly

SPSCProducer == spsc_push_load \/ spsc_push_check \/ spsc_push_write \/ spsc_push_store
SPSCConsumer == spsc_pop_load \/ spsc_pop_check \/ spsc_pop_read \/ spsc_pop_store

\* one producer thread and one consumer thread, interleaved step by step
SPSCNext == SPSCProducer \/ SPSCConsumer

\* calls that do not overlap: a call starts and runs only while the other
\* thread is outside push/pop (the queue is quiescent between calls)
SPSCSeqNext ==
    \/ (c_pc = "idle" /\ SPSCProducer)
    \/ (p_pc = "idle" /\ SPSCConsumer)


(***************************************************************************)
(* MPMCRingBuffer                                                          *)
(*                                                                         *)
(* Any thread may call push or pop.  A thread's locals pos and item are    *)
(* dead once its call has returned and are reset then; the local seq is    *)
(* read only by the branch that follows its load, in the same step.        *)
(* size_t is 64 bits wide and tail_ is bounded by MPMCMaxPush, so          *)
(* seq - pos is computed without wrap-around.                              *)
(***************************************************************************)
\* log2 of the template parameter Size
MPMCSizeLog == 1
\* tail_ is not advanced beyond this many positions
MPMCMaxPush == 3
Threads == {"t1", "t2", "t3"}
\* the items a thread may push
MPMCValues == {1, 2}
\* T{}: the value of a value-initialised slot (buffer_.resize(Size))
MPMCDefault == 0

MPMCSize == 2 ^ MPMCSizeLog

PushPcs == {"p_load", "p_seq", "p_cas", "p_write", "p_publish"}
PopPcs == {"c_load", "c_seq", "c_cas", "c_read", "c_release"}

\* an index mask that is one bit short
mpmc_slot_short_mask(pos) == BitAnd(pos, (MPMCSize \div 2) - 1)
\* &buffer_[pos & (Size - 1)]
mpmc_slot(pos) == BitAnd(pos, MPMCSize - 1)

\* size(): tail - head
mpmc_size == mpmc_tail - mpmc_head
\* empty(): size() == 0
mpmc_empty == mpmc_size = 0
\* capacity(): Size
mpmc_capacity == MPMCSize

RECURSIVE BagSum(_, _)
BagSum(b, S) ==
    IF S = {} THEN 0
    ELSE LET x == CHOOSE y \in S : TRUE IN b[x] + BagSum(b, S \ {x})
BagCount(b) == BagSum(b, DOMAIN b)

\* the pushes / pops that have returned true
MPMCPushDone == BagCount(mpmc_accepted)
MPMCPopDone == BagCount(mpmc_returned)
\* the calls of the other threads that are in flight
PushesInFlight(t) == Cardinality({u \in Threads \ {t} : m_pc[u] \in PushPcs})
PopsInFlight(t) == Cardinality({u \in Threads \ {t} : m_pc[u] \in PopPcs})

\* At this moment, in whatever order the calls in flight take effect, the
\* queue holds an item (t is in pop): more pushes have returned true than
\* pops have returned true or are in flight; or it has a free slot (t is in
\* push): the pushes that returned true or are in flight, less the pops that
\* returned true, are fewer than Size.
MPMCSureNow(t) ==
    IF m_pc[t] \in PopPcs
    THEN MPMCPushDone - MPMCPopDone - PopsInFlight(t) > 0
    ELSE MPMCPushDone + PushesInFlight(t) - MPMCPopDone < MPMCSize

\* m_sure[t]: MPMCSureNow(t) has held at every moment of t's call so far
MPMCSureUpdate ==
    m_sure' = [u \in Threads |->
                 IF m_pc'[u] = "idle" THEN FALSE
                 ELSE IF m_pc[u] = "idle" THEN MPMCSureNow(u)'
                 ELSE m_sure[u] /\ MPMCSureNow(u)']

\* MPMCRingBuffer(), line 257-263: sequence of slot i is i
MPMCInit ==
    /\ mpmc_head = 0
    /\ mpmc_tail = 0
    /\ mpmc_sequence = [i \in 0..(MPMCSize - 1) |-> i]
    /\ mpmc_data = [i \in 0..(MPMCSize - 1) |-> MPMCDefault]
    /\ m_pc = [t \in Threads |-> "idle"]
    /\ m_pos = [t \in Threads |-> 0]
    /\ m_item = [t \in Threads |-> MPMCDefault]
    /\ m_sure = [t \in Threads |-> FALSE]
    /\ mpmc_accepted = [v \in MPMCValues |-> 0]
    /\ mpmc_returned = [v \in MPMCValues \cup {MPMCDefault} |-> 0]

\* the call of t returns: its locals are dead
mpmc_return(t) ==
    /\ m_pc' = [m_pc EXCEPT ![t] = "idle"]
    /\ m_pos' = [m_pos EXCEPT ![t] = 0]
    /\ m_item' = [m_item EXCEPT ![t] = MPMCDefault]

\* a thread calls push(item).  push reads item at line 299 only, so the value
\* of the argument is drawn there, where it first matters.
mpmc_push_call(t) ==
    /\ m_pc[t] = "idle"
    /\ mpmc_tail + PushesInFlight(t) < MPMCMaxPush
    /\ UNCHANGED m_item
    /\ m_pc' = [m_pc EXCEPT ![t] = "p_load"]
    /\ UNCHANGED <<mpmc_head, mpmc_tail, mpmc_sequence, mpmc_data, m_pos,
                   mpmc_accepted, mpmc_returned>>
    /\ MPMCSureUpdate
    /\ MPMCOnly

\* push, line 279: pos = tail_.load(relaxed)
mpmc_push_load(t) ==
    /\ m_pc[t] = "p_load"
    /\ m_pos' = [m_pos EXCEPT ![t] = mpmc_tail]
    /\ m_pc' = [m_pc EXCEPT ![t] = "p_seq"]
    /\ UNCHANGED <<mpmc_head, mpmc_tail, mpmc_sequence, mpmc_data, m_item,
                   mpmc_accepted, mpmc_returned>>
    /\ MPMCSureUpdate
    /\ MPMCOnly

\* a push that waits for a free slot instead of returning false
mpmc_push_branch_spin(seq, pos) == IF seq - pos = 0 THEN "p_cas" ELSE "p_load"
\* where push goes after loading seq, line 283-295: diff = seq - pos;
\* 0: try the CAS, < 0: return false (full), > 0: retry
mpmc_push_branch(seq, pos) ==
    IF seq - pos = 0 THEN "p_cas" ELSE IF seq - pos < 0 THEN "idle" ELSE "p_load"

\* push, line 280-295: seq = slot->sequence.load(acquire) and the branch on diff
mpmc_push_seq(t) ==
    /\ m_pc[t] = "p_seq"
    /\ LET seq == mpmc_sequence[mpmc_slot(m_pos[t])]
       IN IF mpmc_push_branch(seq, m_pos[t]) = "idle"
          THEN mpmc_return(t)
          ELSE /\ m_pc' = [m_pc EXCEPT ![t] = mpmc_push_branch(seq, m_pos[t])]
               /\ UNCHANGED <<m_pos, m_item>>
    /\ UNCHANGED <<mpmc_head, mpmc_tail, mpmc_sequence, mpmc_data,
                   mpmc_accepted, mpmc_returned>>
    /\ MPMCSureUpdate
    /\ MPMCOnly

\* a plain store in place of the CAS: it always succeeds
cas_always_succeeds(cur, expected) == TRUE
\* compare_exchange_weak(expected, desired) on an atomic holding cur may
\* succeed: only when cur == expected
cas_may_succeed(cur, expected) == cur = expected
\* compare_exchange_weak may fail: when cur != expected, and spuriously
cas_may_fail(cur, expected) == TRUE

\* push, line 287-290: tail_.compare_exchange_weak(pos, pos + 1); a failure
\* loads tail_ into pos and the loop retries
mpmc_push_cas(t) ==
    /\ m_pc[t] = "p_cas"
    /\ \/ /\ cas_may_succeed(mpmc_tail, m_pos[t])
          /\ mpmc_tail' = m_pos[t] + 1
          /\ m_pc' = [m_pc EXCEPT ![t] = "p_write"]
          /\ UNCHANGED m_pos
       \/ /\ cas_may_fail(mpmc_tail, m_pos[t])
          /\ m_pos' = [m_pos EXCEPT ![t] = mpmc_tail]
          /\ m_pc' = [m_pc EXCEPT ![t] = "p_load"]
          /\ UNCHANGED mpmc_tail
    /\ UNCHANGED <<mpmc_head, mpmc_sequence, mpmc_data, m_item,
                   mpmc_accepted, mpmc_returned>>
    /\ MPMCSureUpdate
    /\ MPMCOnly

\* push, line 299: slot->data = item
mpmc_push_write(t) ==
    /\ m_pc[t] = "p_write"
    /\ \E item \in MPMCValues :
          /\ m_item' = [m_item EXCEPT ![t] = item]
          /\ mpmc_data' = [mpmc_data EXCEPT ![mpmc_slot(m_pos[t])] = item]
    /\ m_pc' = [m_pc EXCEPT ![t] = "p_publish"]
    /\ UNCHANGED <<mpmc_head, mpmc_tail, mpmc_sequence, m_pos,
                   mpmc_accepted, mpmc_returned>>
    /\ MPMCSureUpdate
    /\ MPMCOnly

\* push, line 302-304: slot->sequence.store(pos + 1, release); return true
mpmc_push_publish(t) ==
    /\ m_pc[t] = "p_publish"
    /\ mpmc_sequence' = [mpmc_sequence EXCEPT ![mpmc_slot(m_pos[t])] = m_pos[t] + 1]
    /\ mpmc_return(t)
    /\ mpmc_accepted' = [mpmc_accepted EXCEPT ![m_item[t]] = @ + 1]
    /\ UNCHANGED <<mpmc_head, mpmc_tail, mpmc_data, mpmc_returned>>
    /\ MPMCSureUpdate
    /\ MPMCOnly

\* a thread calls pop(item)
mpmc_pop_call(t) ==
    /\ m_pc[t] = "idle"
    /\ m_pc' = [m_pc EXCEPT ![t] = "c_load"]
    /\ UNCHANGED <<mpmc_head, mpmc_tail, mpmc_sequence, mpmc_data, m_pos, m_item, mpmc_accepted, mpmc_returned>>
    /\ MPMCSureUpdate
    /\ MPMCOnly

\* pop, line 318: pos = head_.load(relaxed)
mpmc_pop_load(t) ==
    /\ m_pc[t] = "c_load"
    /\ m_pos' = [m_pos EXCEPT ![t] = mpmc_head]
    /\ m_pc' = [m_pc EXCEPT ![t] = "c_seq"]
    /\ UNCHANGED <<mpmc_head, mpmc_tail, mpmc_sequence, mpmc_data, m_item,
                   mpmc_accepted, mpmc_returned>>
    /\ MPMCSureUpdate
    /\ MPMCOnly

\* where pop goes after loading seq, line 322-334: diff = seq - (pos + 1);
\* 0: try the CAS, < 0: return false (empty), > 0: retry
mpmc_pop_branch(seq, pos) ==
    IF seq - (pos + 1) = 0 THEN "c_cas"
    ELSE IF seq - (pos + 1) < 0 THEN "idle" ELSE "c_load"

\* pop, line 319-334: seq = slot->sequence.load(acquire) and the branch on diff
mpmc_pop_seq(t) ==
    /\ m_pc[t] = "c_seq"
    /\ LET seq == mpmc_sequence[mpmc_slot(m_pos[t])]
       IN IF mpmc_pop_branch(seq, m_pos[t]) = "idle"
          THEN mpmc_return(t)
          ELSE /\ m_pc' = [m_pc EXCEPT ![t] = mpmc_pop_branch(seq, m_pos[t])]
               /\ UNCHANGED <<m_pos, m_item>>
    /\ UNCHANGED <<mpmc_head, mpmc_tail, mpmc_sequence, mpmc_data,
                   mpmc_accepted, mpmc_returned>>
    /\ MPMCSureUpdate
    /\ MPMCOnly

\* pop, line 326-329: head_.compare_exchange_weak(pos, pos + 1)
mpmc_pop_cas(t) ==
    /\ m_pc[t] = "c_cas"
    /\ \/ /\ cas_may_succeed(mpmc_head, m_pos[t])
          /\ mpmc_head' = m_pos[t] + 1
          /\ m_pc' = [m_pc EXCEPT ![t] = "c_read"]
          /\ UNCHANGED m_pos
       \/ /\ cas_may_fail(mpmc_head, m_pos[t])
          /\ m_pos' = [m_pos EXCEPT ![t] = mpmc_head]
          /\ m_pc' = [m_pc EXCEPT ![t] = "c_load"]
          /\ UNCHANGED mpmc_head
    /\ UNCHANGED <<mpmc_tail, mpmc_sequence, mpmc_data, m_item,
                   mpmc_accepted, mpmc_returned>>
    /\ MPMCSureUpdate
    /\ MPMCOnly

\* pop, line 338: item = std::move(slot->data)
mpmc_pop_read(t) ==
    /\ m_pc[t] = "c_read"
    /\ m_item' = [m_item EXCEPT ![t] = mpmc_data[mpmc_slot(m_pos[t])]]
    /\ m_pc' = [m_pc EXCEPT ![t] = "c_release"]
    /\ UNCHANGED <<mpmc_head, mpmc_tail, mpmc_sequence, mpmc_data, m_pos,
                   mpmc_accepted, mpmc_returned>>
    /\ MPMCSureUpdate
    /\ MPMCOnly

\* a pop that marks the slot with pos + 1, as a producer does
mpmc_pop_release_next_pos(t) ==
    /\ m_pc[t] = "c_release"
    /\ mpmc_sequence' = [mpmc_sequence EXCEPT ![mpmc_slot(m_pos[t])] = m_pos[t] + 1]
    /\ mpmc_return(t)
    /\ mpmc_returned' = [mpmc_returned EXCEPT ![m_item[t]] = @ + 1]
    /\ UNCHANGED <<mpmc_head, mpmc_tail, mpmc_data, mpmc_accepted>>
    /\ MPMCSureUpdate
    /\ MPMCOnly

\* pop, line 341-343: slot->sequence.store(pos + Size, release); return true
mpmc_pop_release(t) ==
    /\ m_pc[t] = "c_release"
    /\ mpmc_sequence' = [mpmc_sequence EXCEPT
                           ![mpmc_slot(m_pos[t])] = m_pos[t] + MPMCSize]
    /\ mpmc_return(t)
    /\ mpmc_returned' = [mpmc_returned EXCEPT ![m_item[t]] = @ + 1]
    /\ UNCHANGED <<mpmc_head, mpmc_tail, mpmc_data, mpmc_accepted>>
    /\ MPMCSureUpdate
    /\ MPMCOnly

MPMCPush(t) ==
    \/ mpmc_push_call(t) \/ mpmc_push_load(t) \/ mpmc_push_seq(t)
    \/ mpmc_push_cas(t) \/ mpmc_push_write(t) \/ mpmc_push_publish(t)
MPMCPop(t) ==
    \/ mpmc_pop_call(t) \/ mpmc_pop_load(t) \/ mpmc_pop_seq(t)
    \/ mpmc_pop_cas(t) \/ mpmc_pop_read(t) \/ mpmc_pop_release(t)

MPMCNext == \E t \in Threads : MPMCPush(t) \/ MPMCPop(t)


(***************************************************************************)
(* 32-bit unsigned arithmetic.  A uint32_t is the pair <<hi, lo>> of its    *)
(* two 16-bit halves; every operation is reduced modulo 2^32.              *)
(***************************************************************************)
RECURSIVE BitXor(_, _)
BitXor(a, b) ==
    IF a = 0 THEN b ELSE IF b = 0 THEN a
    ELSE (((a % 2) + (b % 2)) % 2) + 2 * BitXor(a \div 2, b \div 2)

RECURSIVE BitOr(_, _)
BitOr(a, b) ==
    IF a = 0 THEN b ELSE IF b = 0 THEN a
    ELSE (IF a % 2 = 1 \/ b % 2 = 1 THEN 1 ELSE 0) + 2 * BitOr(a \div 2, b \div 2)

U16 == 65536

\* a ^ b
xor32(a, b) == <<BitXor(a[1], b[1]), BitXor(a[2], b[2])>>
\* a + b
add32(a, b) ==
    <<(a[1] + b[1] + (a[2] + b[2]) \div U16) % U16, (a[2] + b[2]) % U16>>
\* p * q modulo 2^16, for 16-bit p and q, without exceeding 31 bits
MulLow16(p, q) == ((p % 256) * q + ((p \div 256) * (q % 256)) * 256) % U16
\* a * b
mul32(a, b) ==
    LET x == (a[2] \div 256) * b[2]
        y == (a[2] % 256) * b[2]
        s == (x % 256) * 256 + y
    IN <<(MulLow16(a[1], b[2]) + MulLow16(a[2], b[1]) + x \div 256 + s \div U16) % U16,
         s % U16>>
\* x >> r, 0 < r <= 16
shr32(x, r) ==
    <<x[1] \div (2 ^ r), BitOr(x[2] \div (2 ^ r), (x[1] * (2 ^ (16 - r))) % U16)>>
\* rotl32, line 74-76: (x << r) | (x >> (32 - r)), 0 < r < 16
rotl32(x, r) ==
    <<BitOr((x[1] * (2 ^ r)) % U16, x[2] \div (2 ^ (16 - r))),
      BitOr((x[2] * (2 ^ r)) % U16, x[1] \div (2 ^ (16 - r)))>>

(***************************************************************************)
(* MurmurHash3 (consistent_hash.h:30-86)                                   *)
(***************************************************************************)
\* c1 = 0xcc9e2d51, c2 = 0x1b873593
murmur_c1 == <<52382, 11601>>
murmur_c2 == <<7047, 13715>>

\* fmix32, line 78-85
fmix32(h) ==
    LET h1 == xor32(h, shr32(h, 16))
        h2 == mul32(h1, <<34283, 51819>>)       \* 0x85ebca6b
        h3 == xor32(h2, shr32(h2, 13))
        h4 == mul32(h3, <<49842, 44597>>)       \* 0xc2b2ae35
    IN xor32(h4, shr32(h4, 16))

\* k1 *= c1; k1 = rotl32(k1, 15); k1 *= c2    (line 44-46 and line 60)
murmur_scramble(k1) == mul32(rotl32(mul32(k1, murmur_c1), 15), murmur_c2)

\* blocks[i], line 41-43: four bytes of the key read as a uint32_t, on a
\* little-endian machine; data is the key as a sequence of bytes, i from 0
murmur_block(data, i) ==
    <<data[4 * i + 4] * 256 + data[4 * i + 3], data[4 * i + 2] * 256 + data[4 * i + 1]>>

\* Body, line 42-51: h1 after the blocks i .. nblocks-1
RECURSIVE murmur_body(_, _, _, _)
murmur_body(data, i, nblocks, h1) ==
    IF i >= nblocks THEN h1
    ELSE murmur_body(data, i + 1, nblocks,
            add32(mul32(rotl32(xor32(h1, murmur_scramble(murmur_block(data, i))), 13),
                        <<0, 5>>),
                  <<58964, 27492>>))            \* h1 * 5 + 0xe6546b64

\* Tail, line 54-61: the len & 3 bytes after the blocks
murmur_tail(data, nblocks, h1) ==
    LET n == Len(data) - 4 * nblocks
        t(j) == IF j < n THEN data[4 * nblocks + j + 1] ELSE 0
    IN IF n = 0 THEN h1
       ELSE xor32(h1, murmur_scramble(<<t(2), t(1) * 256 + t(0)>>))

\* MurmurHash3::hash(key, len, seed = 0), line 32-67
murmur_hash(data) ==
    LET nblocks == Len(data) \div 4
        h1 == murmur_tail(data, nblocks, murmur_body(data, 0, nblocks, <<0, 0>>))
    IN fmix32(xor32(h1, <<0, Len(data)>>))

\* std::to_string(n): the decimal digits of n, as bytes
RECURSIVE to_string(_)
to_string(n) == IF n < 10 THEN <<48 + n>> ELSE Append(to_string(n \div 10), 48 + (n % 10))

\* a < b, a <= b on uint32_t
lt32(a, b) == a[1] < b[1] \/ (a[1] = b[1] /\ a[2] < b[2])
le32(a, b) == a = b \/ lt32(a, b)


(***************************************************************************)
(* FiveTuple (types.h:124-165) and MurmurHash3::hash_tuple                 *)
(***************************************************************************)
\* The tuples looked up.  The first one hashes, with zero padding, exactly
\* onto the ring position 0x9064b1ad of the keys "24100#1" and "49690#2".
Tuples ==
    { [src_ip |-> <<22839, 817>>, dst_ip |-> <<2560, 1>>,
       src_port |-> 80, dst_port |-> 8080, protocol |-> 6],
      [src_ip |-> <<49320, 1>>, dst_ip |-> <<2560, 1>>,
       src_port |-> 12345, dst_port |-> 80, protocol |-> 6],
      [src_ip |-> <<49320, 2>>, dst_ip |-> <<2560, 1>>,
       src_port |-> 12346, dst_port |-> 80, protocol |-> 17] }

\* sizeof(FiveTuple) is 16: 13 bytes of members and 3 bytes of padding after
\* protocol, which no constructor writes.  Pads are the values those three
\* bytes may hold.
Pads == { <<0, 0, 0>>, <<255, 255, 255>> }

\* The object representation of a FiveTuple on a little-endian machine
tuple_bytes(t, pad) ==
    << t.src_ip[2] % 256, t.src_ip[2] \div 256, t.src_ip[1] % 256, t.src_ip[1] \div 256,
       t.dst_ip[2] % 256, t.dst_ip[2] \div 256, t.dst_ip[1] % 256, t.dst_ip[1] \div 256,
       t.src_port % 256, t.src_port \div 256,
       t.dst_port % 256, t.dst_port \div 256,
       t.protocol >> \o pad

\* hash_tuple, line 69-71: hash(&tuple, sizeof(tuple))
hash_tuple(t, pad) == murmur_hash(tuple_bytes(t, pad))

(***************************************************************************)
(* ConsistentHashRing (consistent_hash.h:93-168).  Every member function   *)
(* holds mutex_ from entry to exit, so each one is a single step.          *)
(***************************************************************************)
RingVirtualNodes == 3
ServerIds == {1, 2, 24100, 49690}
\* the ids registered with RealServerManager; the keys "46277#0" and
\* "136981#0" have the same hash
RegistryIds == {1, 46277, 136981}
Weights == {50, 100}
RingNoId == 0

\* add_node, line 104-105
ring_replicas(weight) ==
    LET replicas == (RingVirtualNodes * weight) \div 100
    IN IF replicas < 1 THEN 1 ELSE replicas

\* add_node, line 108-109: hash of the key  to_string(server_id) + "#" + to_string(i)
ring_key_hash(server_id, i) == murmur_hash(to_string(server_id) \o <<35>> \o to_string(i))

MaxReplicas == ring_replicas(100)
NodeHash == [id \in ServerIds \cup RegistryIds |-> [i \in 0..(MaxReplicas - 1) |-> ring_key_hash(id, i)]]
TupleHash == [t \in Tuples |-> [pad \in Pads |-> hash_tuple(t, pad)]]

\* an add_node that makes room by erasing the first entry of the ring
ring_insert_evicts_first(r, server_id, i, replicas) ==
    LET kept == IF DOMAIN r = {} THEN r
                ELSE [p \in DOMAIN r \ {CHOOSE q \in DOMAIN r :
                                            \A o \in DOMAIN r : le32(q, o)} |-> r[p]]
        mine == {NodeHash[server_id][k] : k \in 0..(replicas - 1)}
    IN [p \in DOMAIN kept \cup mine |-> IF p \in mine THEN server_id ELSE kept[p]]

\* add_node, line 107-111: ring_[hash] = server_id for i = 0 .. replicas-1
RECURSIVE ring_insert(_, _, _, _)
ring_insert(r, server_id, i, replicas) ==
    IF i >= replicas THEN r
    ELSE ring_insert([p \in DOMAIN r \cup {NodeHash[server_id][i]} |->
                         IF p = NodeHash[server_id][i] THEN server_id ELSE r[p]],
                     server_id, i + 1, replicas)

\* history: the positions add_node writes that hold another backend's entry
ring_collisions(r, server_id, replicas) ==
    {p \in DOMAIN r : /\ r[p] # server_id
                      /\ \E k \in 0..(replicas - 1) : p = NodeHash[server_id][k]}

\* remove_node erasing only the first entry of the id
ring_erase_first(r, server_id) ==
    LET mine == {p \in DOMAIN r : r[p] = server_id}
    IN [p \in {q \in DOMAIN r : r[q] # server_id \/ \E m \in mine : lt32(m, q)}
            |-> r[p]]
\* remove_node, line 120-126: erase every entry whose value is server_id
ring_erase(r, server_id) == [p \in {q \in DOMAIN r : r[q] # server_id} |-> r[p]]

\* ring_.end()
RingEnd == <<U16, U16>>
\* ring_.begin(): the entry with the smallest key
ring_begin(r) == CHOOSE p \in DOMAIN r : \A q \in DOMAIN r : le32(p, q)
\* first entry whose key is greater than hash
ring_upper_bound(r, hash) ==
    LET after == {p \in DOMAIN r : lt32(hash, p)}
    IN IF after = {} THEN RingEnd ELSE CHOOSE p \in after : \A q \in after : le32(p, q)
\* the entry picked by  hash % ring_.size()
ring_modulo(r, hash) ==
    LET n == Cardinality(DOMAIN r)
        k == ((hash[1] % n) * (U16 % n) + (hash[2] % n)) % n
    IN CHOOSE p \in DOMAIN r : Cardinality({q \in DOMAIN r : lt32(q, p)}) = k
\* ring_.lower_bound(hash), line 138: first entry whose key is not less than hash
ring_lower_bound(r, hash) ==
    LET notless == {p \in DOMAIN r : ~lt32(p, hash)}
    IN IF notless = {} THEN RingEnd ELSE CHOOSE p \in notless : \A q \in notless : le32(p, q)

\* get_server, line 132-146, as a function of the ring, the hash of the tuple
\* object and the old value of the caller's server_id
get_server(r, hash, old_id) ==
    IF DOMAIN r = {} THEN [ret |-> FALSE, server_id |-> old_id]
    ELSE LET it == ring_lower_bound(r, hash)
         IN [ret |-> TRUE,
             server_id |-> r[IF it = RingEnd THEN ring_begin(r) ELSE it]]

RingInit ==
    /\ ring_ = [p \in {} |-> RingNoId]
    /\ g_server_id = RingNoId
    /\ g_ret = FALSE
    /\ ring_op = <<"init">>
    /\ ring_status = [id \in ServerIds |-> "never"]

\* add_node(server_id, weight), line 101-112
add_node(server_id, weight) ==
    /\ ring_' = ring_insert(ring_, server_id, 0, ring_replicas(weight))
    /\ ring_op' = <<"add_node", server_id, weight,
                    ring_collisions(ring_, server_id, ring_replicas(weight)) # {}>>
    /\ ring_status' = [ring_status EXCEPT ![server_id] = "added"]
    /\ UNCHANGED <<g_server_id, g_ret>>
    /\ RingOnly

\* remove_node(server_id), line 117-127
remove_node(server_id) ==
    /\ ring_' = ring_erase(ring_, server_id)
    /\ ring_op' = <<"remove_node", server_id,
                    Cardinality(DOMAIN ring_) - Cardinality(DOMAIN ring_')>>
    /\ ring_status' = [ring_status EXCEPT
                         ![server_id] = IF @ = "never" THEN "never" ELSE "removed"]
    /\ UNCHANGED <<g_server_id, g_ret>>
    /\ RingOnly

\* clear(), line 159-162
ring_clear ==
    /\ ring_' = [p \in {} |-> RingNoId]
    /\ ring_op' = <<"clear">>
    /\ ring_status' = [id \in ServerIds |->
                         IF ring_status[id] = "never" THEN "never" ELSE "removed"]
    /\ UNCHANGED <<g_server_id, g_ret>>
    /\ RingOnly

\* get_server(tuple, server_id), line 132-146; the padding bytes of the tuple
\* object are whatever the memory it was built in held
ring_get_server(t, pad) ==
    LET res == get_server(ring_, TupleHash[t][pad], g_server_id)
    IN /\ g_ret' = res.ret
       /\ g_server_id' = res.server_id
       /\ ring_op' = <<"get_server", t, pad>>
       /\ UNCHANGED <<ring_, ring_status>>
       /\ RingOnly

RingNext ==
    \/ \E id \in ServerIds, w \in Weights : add_node(id, w)
    \/ \E id \in ServerIds : remove_node(id)
    \/ ring_clear
    \/ \E t \in Tuples, pad \in Pads : ring_get_server(t, pad)


(***************************************************************************)
(* RealServerManager (real_server.h:17-132).  Control-plane calls come     *)
(* from the thread "ctl", packet-path calls from the thread "wk".          *)
(***************************************************************************)
RegistryVirtualNodes == 150
RegistryWeights == {1, 2}
Statuses == {"UP", "DOWN", "CHECKING"}
NoThread == "none"
\* nullptr
NullServer == 0

\* std::unordered_map: m[k] = v and m.erase(k)
MapPut(m, k, v) == [x \in DOMAIN m \cup {k} |-> IF x = k THEN v ELSE m[x]]
MapErase(m, k) == [x \in DOMAIN m \ {k} |-> m[x]]
EmptyMap == [x \in {} |-> NullServer]

\* add_node on hash_ring_ (virtual_nodes_ = 150), consistent_hash.h:104-105
hash_ring_replicas(weight) ==
    LET replicas == (RegistryVirtualNodes * weight) \div 100
    IN IF replicas < 1 THEN 1 ELSE replicas

\* RealServer::is_available, types.h:269-271
is_available(rs) == rs.status = "UP"

CtlIdle == [pc |-> "idle", id |-> NullServer, weight |-> 0]
\* the worker between two calls; rs is the RealServer* it holds (the id of the
\* map node it points to), dangling says that this node has been erased
WkIdle == [pc |-> "idle", op |-> "none", tuple |-> <<>>, pad |-> <<>>,
           session_id |-> NullServer, server_id |-> NullServer,
           rs |-> NullServer, dangling |-> FALSE]

\* add_server, line 54-55: lock mutex_; servers_[rs.id] = rs
add_server_store(id, weight, status) ==
    /\ ctl.pc = "idle"
    /\ reg_mutex = NoThread
    /\ reg_mutex' = "ctl"
    /\ servers_' = MapPut(servers_, id, [weight |-> weight, status |-> status])
    /\ ctl' = [CtlIdle EXCEPT !.pc = "as_ring_lock", !.id = id, !.weight = weight]
    /\ UNCHANGED <<hash_ring_, hring_mutex, sess_mutex, sessions_, active_sessions,
                   timeout_sec_, clock, wk, lb_hist>>
    /\ LBOnly

\* add_server, line 56 -> add_node, line 102: lock hash_ring_.mutex_
add_server_ring_lock ==
    /\ ctl.pc = "as_ring_lock"
    /\ hring_mutex = NoThread
    /\ hring_mutex' = "ctl"
    /\ ctl' = [ctl EXCEPT !.pc = "as_ring"]
    /\ UNCHANGED <<servers_, hash_ring_, reg_mutex, sess_mutex, sessions_,
                   active_sessions, timeout_sec_, clock, wk, lb_hist>>
    /\ LBOnly

\* add_node, line 104-112: insert the replicas; unlock hash_ring_.mutex_
add_server_ring ==
    /\ ctl.pc = "as_ring"
    /\ hash_ring_' = ring_insert(hash_ring_, ctl.id, 0, hash_ring_replicas(ctl.weight))
    /\ hring_mutex' = NoThread
    /\ ctl' = [ctl EXCEPT !.pc = "as_unlock"]
    /\ UNCHANGED <<servers_, reg_mutex, sess_mutex, sessions_, active_sessions,
                   timeout_sec_, clock, wk, lb_hist>>
    /\ LBOnly

\* add_server, line 57: unlock mutex_
add_server_unlock ==
    /\ ctl.pc = "as_unlock"
    /\ reg_mutex' = NoThread
    /\ ctl' = CtlIdle
    /\ UNCHANGED <<servers_, hash_ring_, hring_mutex, sess_mutex, sessions_,
                   active_sessions, timeout_sec_, clock, wk, lb_hist>>
    /\ LBOnly

\* remove_server, line 63-64: lock mutex_; servers_.erase(id)
remove_server_erase(id) ==
    /\ ctl.pc = "idle"
    /\ reg_mutex = NoThread
    /\ reg_mutex' = "ctl"
    /\ servers_' = MapErase(servers_, id)
    /\ ctl' = [CtlIdle EXCEPT !.pc = "rs_ring_lock", !.id = id]
    \* a RealServer* of the worker that points into the erased node dangles
    /\ wk' = IF wk.rs = id /\ id \in DOMAIN servers_
             THEN [wk EXCEPT !.dangling = TRUE] ELSE wk
    /\ UNCHANGED <<hash_ring_, hring_mutex, sess_mutex, sessions_, active_sessions,
                   timeout_sec_, clock, lb_hist>>
    /\ LBOnly

\* remove_server, line 65 -> remove_node, line 118: lock hash_ring_.mutex_
remove_server_ring_lock ==
    /\ ctl.pc = "rs_ring_lock"
    /\ hring_mutex = NoThread
    /\ hring_mutex' = "ctl"
    /\ ctl' = [ctl EXCEPT !.pc = "rs_ring"]
    /\ UNCHANGED <<servers_, hash_ring_, reg_mutex, sess_mutex, sessions_,
                   active_sessions, timeout_sec_, clock, wk, lb_hist>>
    /\ LBOnly

\* remove_node, line 120-127: erase the entries of id; unlock hash_ring_.mutex_
remove_server_ring ==
    /\ ctl.pc = "rs_ring"
    /\ hash_ring_' = ring_erase(hash_ring_, ctl.id)
    /\ hring_mutex' = NoThread
    /\ ctl' = [ctl EXCEPT !.pc = "rs_unlock"]
    /\ UNCHANGED <<servers_, reg_mutex, sess_mutex, sessions_, active_sessions,
                   timeout_sec_, clock, wk, lb_hist>>
    /\ LBOnly

\* remove_server, line 66: unlock mutex_
remove_server_unlock ==
    /\ ctl.pc = "rs_unlock"
    /\ reg_mutex' = NoThread
    /\ ctl' = CtlIdle
    /\ UNCHANGED <<servers_, hash_ring_, hring_mutex, sess_mutex, sessions_,
                   active_sessions, timeout_sec_, clock, wk, lb_hist>>
    /\ LBOnly

\* set_status that re-inserts the ring entries of a backend set UP and erases
\* those of a backend set DOWN
set_status_rebuilds_ring(r, id, status) ==
    IF status = "UP" THEN r ELSE ring_erase(r, id)
\* set_status leaves hash_ring_ alone
set_status_ring(r, id, status) == r

\* set_status, line 72-76: lock mutex_; find; it->second.status = status
set_status_store(id, status) ==
    /\ ctl.pc = "idle"
    /\ reg_mutex = NoThread
    /\ reg_mutex' = "ctl"
    /\ servers_' = IF id \in DOMAIN servers_
                   THEN [servers_ EXCEPT ![id].status = status]
                   ELSE servers_
    /\ hash_ring_' = set_status_ring(hash_ring_, id, status)
    /\ ctl' = [CtlIdle EXCEPT !.pc = "ss_unlock", !.id = id]
    /\ UNCHANGED <<hring_mutex, sess_mutex, sessions_, active_sessions,
                   timeout_sec_, clock, wk, lb_hist>>
    /\ LBOnly

\* set_status, line 77: unlock mutex_
set_status_unlock ==
    /\ ctl.pc = "ss_unlock"
    /\ reg_mutex' = NoThread
    /\ ctl' = CtlIdle
    /\ UNCHANGED <<servers_, hash_ring_, hring_mutex, sess_mutex, sessions_,
                   active_sessions, timeout_sec_, clock, wk, lb_hist>>
    /\ LBOnly

RegistryControl ==
    \/ \E id \in RegistryIds, w \in RegistryWeights : add_server_store(id, w, "UP")
    \/ add_server_ring_lock
    \/ add_server_ring
    \/ add_server_unlock
    \/ \E id \in RegistryIds : remove_server_erase(id)
    \/ remove_server_ring_lock
    \/ remove_server_ring
    \/ remove_server_unlock
    \/ \E id \in RegistryIds, st \in Statuses : set_status_store(id, st)
    \/ set_status_unlock


(***************************************************************************)
(* SessionManager (session.h:19-139) and Session (types.h:285-311).        *)
(* A Session is [real_server_id, last_active, packets, bytes]; create_time *)
(* and the tuple copies are written once and never read.  Every member     *)
(* function holds mutex_ from entry to exit.                               *)
(***************************************************************************)
NsPerSec == 1000000000
SessionTimeoutDefault == 300
SessMaxSeconds == 1
SessMaxPackets == 1
SessMaxActive == 3
PacketLen == 64
\* the tuples of the packets handled; the session table compares tuples by
\* their five fields (operator==, types.h:147-153)
LBTuples == {t \in Tuples : t.protocol = 6}
Timeouts == {0, 1}
\* the instants at which the clock is read
ClockInstants == {k * NsPerSec + e : k \in 0..SessMaxSeconds, e \in {0, 1}}
NoSessions == [t \in {} |-> NullServer]

\* is_expired without the strict comparison: idle >= timeout
is_expired_at_timeout(sess, timeout_sec, now) ==
    (now - sess.last_active) \div NsPerSec >= timeout_sec
\* Session::is_expired, types.h:300-303:
\*   (now - last_active) > timeout_sec * 1000000000ULL
\* in 64-bit arithmetic, which cannot overflow for a 32-bit timeout_sec
is_expired(sess, timeout_sec, now) ==
    LET idle == now - sess.last_active
    IN \/ idle \div NsPerSec > timeout_sec
       \/ (idle \div NsPerSec = timeout_sec /\ idle % NsPerSec > 0)

\* create, line 57-65
new_session(server_id, now) ==
    [real_server_id |-> server_id, last_active |-> now, packets |-> 0, bytes |-> 0]

\* the sessions cleanup erases, line 100-108
expired_sessions == {t \in DOMAIN sessions_ : is_expired(sessions_[t], timeout_sec_, clock)}

session_frame == UNCHANGED <<servers_, hash_ring_, reg_mutex, hring_mutex, sess_mutex, ctl, wk>>

\* set_timeout, line 32-34
set_timeout(seconds) ==
    /\ timeout_sec_' = seconds
    /\ lb_hist' = <<"set_timeout", seconds>>
    /\ UNCHANGED <<sessions_, active_sessions, clock>>
    /\ session_frame
    /\ LBOnly

\* a lookup that returns the session without touching it
lookup_without_touch(t) ==
    /\ sess_mutex = NoThread
    /\ UNCHANGED sessions_
    /\ lb_hist' = IF t \in DOMAIN sessions_
                  THEN <<"lookup", t, TRUE, sessions_[t]>>
                  ELSE <<"lookup", t, FALSE>>
    /\ UNCHANGED <<active_sessions, timeout_sec_, clock>>
    /\ session_frame
    /\ LBOnly

\* lookup(tuple, session), line 39-49
lookup(t) ==
    /\ sess_mutex = NoThread
    /\ IF t \in DOMAIN sessions_
       THEN /\ sessions_' = [sessions_ EXCEPT ![t].last_active = clock]
            /\ lb_hist' = <<"lookup", t, TRUE, sessions_'[t]>>
       ELSE /\ UNCHANGED sessions_
            /\ lb_hist' = <<"lookup", t, FALSE>>
    /\ UNCHANGED <<active_sessions, timeout_sec_, clock>>
    /\ session_frame
    /\ LBOnly

\* create(client_tuple, server_id), line 54-68
create(t, server_id) ==
    /\ sess_mutex = NoThread
    /\ active_sessions < SessMaxActive
    /\ sessions_' = MapPut(sessions_, t, new_session(server_id, clock))
    /\ active_sessions' = active_sessions + 1
    /\ lb_hist' = <<"create", t, server_id>>
    /\ UNCHANGED <<timeout_sec_, clock>>
    /\ session_frame
    /\ LBOnly

\* update_stats(tuple, bytes), line 73-81
update_stats(t) ==
    /\ sess_mutex = NoThread
    /\ t \in DOMAIN sessions_ => sessions_[t].packets < SessMaxPackets
    /\ sessions_' = IF t \in DOMAIN sessions_
                    THEN [sessions_ EXCEPT ![t].last_active = clock,
                                           ![t].packets = @ + 1,
                                           ![t].bytes = @ + PacketLen]
                    ELSE sessions_
    /\ lb_hist' = <<"update_stats", t>>
    /\ UNCHANGED <<active_sessions, timeout_sec_, clock>>
    /\ session_frame
    /\ LBOnly

\* remove(tuple), line 86-91
remove(t) ==
    /\ sess_mutex = NoThread
    /\ sessions_' = MapErase(sessions_, t)
    /\ active_sessions' = IF t \in DOMAIN sessions_
                          THEN active_sessions - 1 ELSE active_sessions
    /\ lb_hist' = <<"remove", t>>
    /\ UNCHANGED <<timeout_sec_, clock>>
    /\ session_frame
    /\ LBOnly

\* cleanup(), line 96-110
cleanup ==
    /\ sess_mutex = NoThread
    /\ sessions_' = [t \in DOMAIN sessions_ \ expired_sessions |-> sessions_[t]]
    /\ active_sessions' = active_sessions - Cardinality(expired_sessions)
    /\ lb_hist' = <<"cleanup", Cardinality(expired_sessions)>>
    /\ UNCHANGED <<timeout_sec_, clock>>
    /\ session_frame
    /\ LBOnly

\* the monotonic clock advances
clock_tick ==
    /\ \E now \in ClockInstants : now > clock /\ clock' = now
    /\ lb_hist' = <<"tick">>
    /\ UNCHANGED <<sessions_, active_sessions, timeout_sec_>>
    /\ session_frame
    /\ LBOnly

LBInit ==
    /\ servers_ = EmptyMap
    /\ hash_ring_ = [p \in {} |-> RingNoId]
    /\ reg_mutex = NoThread
    /\ hring_mutex = NoThread
    /\ sess_mutex = NoThread
    /\ sessions_ = NoSessions
    /\ active_sessions = 0
    /\ timeout_sec_ = SessionTimeoutDefault
    /\ clock = 0
    /\ ctl = CtlIdle
    /\ wk = WkIdle
    /\ lb_hist = <<"init">>

\* the session table used through its interface, one call after the other
SessionNext ==
    \/ \E seconds \in Timeouts : set_timeout(seconds)
    \/ \E t \in LBTuples : lookup(t)
    \/ \E t \in LBTuples, id \in RegistryIds : create(t, id)
    \/ \E t \in LBTuples : update_stats(t)
    \/ \E t \in LBTuples : remove(t)
    \/ cleanup
    \/ clock_tick


(***************************************************************************)
(* The packet path: LoadBalancer::handle_loadbalance                       *)
(* (loadbalancer.h:196-234) and handle_accept (main.cpp:158-225), run by   *)
(* the worker thread.  Each step is one critical section or one use of the *)
(* RealServer* outside every mutex.                                        *)
(***************************************************************************)
wk_frame == UNCHANGED <<servers_, hash_ring_, ctl, timeout_sec_, clock>>
\* what a read of rs->id yields: the id of the node, or anything at all when
\* the node has been erased
RsIdValues == IF wk.dangling THEN RegistryIds ELSE {wk.rs}

\* the worker returns to its loop
wk_return ==
    /\ wk' = WkIdle
    /\ UNCHANGED lb_hist

\* handle_loadbalance, line 198-202 -> lookup, line 40: lock mutex_
hl_lookup_lock(t, pad) ==
    /\ wk.pc = "idle"
    /\ sess_mutex = NoThread
    /\ t \in DOMAIN sessions_ => sessions_[t].packets < SessMaxPackets
    /\ sess_mutex' = "wk"
    /\ wk' = [WkIdle EXCEPT !.pc = "lookup", !.op = "handle_loadbalance",
                            !.tuple = t, !.pad = pad]
    /\ UNCHANGED <<reg_mutex, hring_mutex, sessions_, active_sessions, lb_hist>>
    /\ wk_frame
    /\ LBOnly

\* lookup, line 41-49: find; touch; copy; unlock
hl_lookup ==
    /\ wk.pc = "lookup"
    /\ sess_mutex' = NoThread
    /\ IF wk.tuple \in DOMAIN sessions_
       THEN /\ sessions_' = [sessions_ EXCEPT ![wk.tuple].last_active = clock]
            /\ wk' = [wk EXCEPT !.pc = "get_lock",
                                !.session_id = sessions_[wk.tuple].real_server_id]
       ELSE /\ UNCHANGED sessions_
            /\ wk' = [wk EXCEPT !.pc = "sel_ring_lock"]
    /\ UNCHANGED <<reg_mutex, hring_mutex, active_sessions, lb_hist>>
    /\ wk_frame
    /\ LBOnly

\* handle_loadbalance, line 204 -> get_server(id), line 100: lock mutex_
hl_get_lock ==
    /\ wk.pc = "get_lock"
    /\ reg_mutex = NoThread
    /\ reg_mutex' = "wk"
    /\ wk' = [wk EXCEPT !.pc = "get"]
    /\ UNCHANGED <<hring_mutex, sess_mutex, sessions_, active_sessions, lb_hist>>
    /\ wk_frame
    /\ LBOnly

\* get_server(id), line 101-103: find; return &it->second or nullptr; unlock
hl_get ==
    /\ wk.pc = "get"
    /\ reg_mutex' = NoThread
    /\ wk' = [wk EXCEPT !.pc = "forward_hit",
                        !.rs = IF wk.session_id \in DOMAIN servers_
                               THEN wk.session_id ELSE NullServer,
                        !.dangling = FALSE]
    /\ UNCHANGED <<hring_mutex, sess_mutex, sessions_, active_sessions, lb_hist>>
    /\ wk_frame
    /\ LBOnly

\* handle_loadbalance, line 205: rs && forwarder_->forward(..., rs); the
\* forwarder reads *rs and may succeed or fail
hl_forward_hit ==
    /\ wk.pc = "forward_hit"
    /\ \E forwarded \in BOOLEAN :
          wk' = [wk EXCEPT !.pc = IF wk.rs # NullServer /\ forwarded
                                  THEN "update_lock" ELSE "sel_ring_lock",
                           !.rs = NullServer, !.dangling = FALSE]
    /\ UNCHANGED <<reg_mutex, hring_mutex, sess_mutex, sessions_, active_sessions,
                   lb_hist>>
    /\ wk_frame
    /\ LBOnly

\* handle_loadbalance, line 206 -> update_stats, line 74: lock mutex_
hl_update_lock ==
    /\ wk.pc = "update_lock"
    /\ sess_mutex = NoThread
    /\ sess_mutex' = "wk"
    /\ wk' = [wk EXCEPT !.pc = "update"]
    /\ UNCHANGED <<reg_mutex, hring_mutex, sessions_, active_sessions, lb_hist>>
    /\ wk_frame
    /\ LBOnly

\* update_stats, line 75-81, unlock; handle_loadbalance returns true, line 209
hl_update ==
    /\ wk.pc = "update"
    /\ sess_mutex' = NoThread
    /\ sessions_' = IF wk.tuple \in DOMAIN sessions_
                    THEN [sessions_ EXCEPT ![wk.tuple].last_active = clock,
                                           ![wk.tuple].packets = @ + 1,
                                           ![wk.tuple].bytes = @ + PacketLen]
                    ELSE sessions_
    /\ wk_return
    /\ UNCHANGED <<reg_mutex, hring_mutex, active_sessions>>
    /\ wk_frame
    /\ LBOnly


\* handle_accept, main.cpp:175-183: build the tuple and call select_server
ha_call(t, pad) ==
    /\ wk.pc = "idle"
    /\ wk' = [WkIdle EXCEPT !.pc = "sel_ring_lock", !.op = "handle_accept",
                            !.tuple = t, !.pad = pad]
    /\ UNCHANGED <<reg_mutex, hring_mutex, sess_mutex, sessions_, active_sessions,
                   lb_hist>>
    /\ wk_frame
    /\ LBOnly

\* select_server, line 84 -> hash_ring_.get_server, line 133: lock its mutex_
select_ring_lock ==
    /\ wk.pc = "sel_ring_lock"
    /\ hring_mutex = NoThread
    /\ hring_mutex' = "wk"
    /\ wk' = [wk EXCEPT !.pc = "sel_ring"]
    /\ UNCHANGED <<reg_mutex, sess_mutex, sessions_, active_sessions, lb_hist>>
    /\ wk_frame
    /\ LBOnly

\* a select_server that keeps hash_ring_.mutex_ until it returns
select_ring_keeps_mutex == "wk"
\* get_server's lock_guard releases hash_ring_.mutex_ when get_server returns
select_ring_release == NoThread

\* hash_ring_.get_server, line 135-146, unlock; select_server, line 84-86:
\* on false return nullptr, and the caller gives up (loadbalancer.h:215-219,
\* main.cpp:184-188)
select_ring ==
    /\ wk.pc = "sel_ring"
    /\ hring_mutex' = select_ring_release
    /\ LET res == get_server(hash_ring_, TupleHash[wk.tuple][wk.pad], NullServer)
       IN IF res.ret
          THEN /\ wk' = [wk EXCEPT !.pc = "sel_reg_lock", !.server_id = res.server_id]
               /\ UNCHANGED lb_hist
          ELSE wk_return
    /\ UNCHANGED <<reg_mutex, sess_mutex, sessions_, active_sessions>>
    /\ wk_frame
    /\ LBOnly

\* select_server, line 88: lock mutex_
select_registry_lock ==
    /\ wk.pc = "sel_reg_lock"
    /\ reg_mutex = NoThread
    /\ reg_mutex' = "wk"
    /\ wk' = [wk EXCEPT !.pc = "sel_reg"]
    /\ UNCHANGED <<hring_mutex, sess_mutex, sessions_, active_sessions, lb_hist>>
    /\ wk_frame
    /\ LBOnly

\* a select_server that falls through to any available backend
select_any_available(id) ==
    IF id \in DOMAIN servers_ /\ is_available(servers_[id]) THEN id
    ELSE IF \E other \in DOMAIN servers_ : is_available(servers_[other])
         THEN CHOOSE other \in DOMAIN servers_ : is_available(servers_[other])
         ELSE NullServer
\* select_server, line 89-93: the backend of the id the ring gave, or nullptr
select_backend(id) ==
    IF id \notin DOMAIN servers_ \/ ~is_available(servers_[id])
    THEN NullServer ELSE id

\* select_server, line 89-94: find; is_available; unlock; return
select_registry ==
    /\ wk.pc = "sel_reg"
    /\ reg_mutex' = NoThread
    /\ IF select_backend(wk.server_id) = NullServer
       THEN wk_return
       ELSE /\ wk' = [wk EXCEPT !.pc = IF wk.op = "handle_accept"
                                       THEN "accept_use" ELSE "create_lock",
                                !.rs = select_backend(wk.server_id),
                                !.dangling = FALSE]
            /\ UNCHANGED lb_hist
    /\ UNCHANGED <<hring_mutex, sess_mutex, sessions_, active_sessions>>
    /\ wk_frame
    /\ LBOnly

\* handle_loadbalance, line 222: read rs->id; create, line 55: lock mutex_
hl_create_lock ==
    /\ wk.pc = "create_lock"
    /\ sess_mutex = NoThread
    /\ active_sessions < SessMaxActive
    /\ sess_mutex' = "wk"
    /\ \E id \in RsIdValues : wk' = [wk EXCEPT !.pc = "create", !.server_id = id]
    /\ UNCHANGED <<reg_mutex, hring_mutex, sessions_, active_sessions, lb_hist>>
    /\ wk_frame
    /\ LBOnly

\* create, line 57-68: sessions_[tuple] = session; ++active_sessions; unlock
hl_create ==
    /\ wk.pc = "create"
    /\ sess_mutex' = NoThread
    /\ sessions_' = MapPut(sessions_, wk.tuple, new_session(wk.server_id, clock))
    /\ active_sessions' = active_sessions + 1
    /\ wk' = [wk EXCEPT !.pc = "forward_new"]
    /\ UNCHANGED lb_hist
    /\ UNCHANGED <<reg_mutex, hring_mutex>>
    /\ wk_frame
    /\ LBOnly

\* handle_loadbalance, line 225-233: forward(..., rs) reads *rs; return
hl_forward_new ==
    /\ wk.pc = "forward_new"
    /\ wk_return
    /\ UNCHANGED <<reg_mutex, hring_mutex, sess_mutex, sessions_, active_sessions>>
    /\ wk_frame
    /\ LBOnly

\* handle_accept, main.cpp:190-204: rs->ip, rs->port, connect_to_backend(rs),
\* conn->server_id = rs->id
ha_use ==
    /\ wk.pc = "accept_use"
    /\ wk_return
    /\ UNCHANGED <<reg_mutex, hring_mutex, sess_mutex, sessions_, active_sessions>>
    /\ wk_frame
    /\ LBOnly

\* handle_accept: select_server and the use of its result
AcceptPath ==
    \/ \E t \in LBTuples, pad \in Pads : ha_call(t, pad)
    \/ select_ring_lock
    \/ select_ring
    \/ select_registry_lock
    \/ select_registry
    \/ ha_use

\* handle_loadbalance: session lookup, select_server, session creation
LoadBalancePath ==
    \/ \E t \in LBTuples, pad \in Pads : hl_lookup_lock(t, pad)
    \/ hl_lookup
    \/ hl_get_lock
    \/ hl_get
    \/ hl_forward_hit
    \/ hl_update_lock
    \/ hl_update
    \/ select_ring_lock
    \/ select_ring
    \/ select_registry_lock
    \/ select_registry
    \/ hl_create_lock
    \/ hl_create
    \/ hl_forward_new

\* the registry under the control plane and handle_accept
RegistryNext == RegistryControl \/ AcceptPath

\* the control plane while packets are handled: backends of weight 1 come and
\* go, sessions are removed
LBIds == {1, 46277}
LBControl ==
    \/ \E id \in LBIds : add_server_store(id, 1, "UP")
    \/ add_server_ring_lock
    \/ add_server_ring
    \/ add_server_unlock
    \/ \E id \in LBIds : remove_server_erase(id)
    \/ remove_server_ring_lock
    \/ remove_server_ring
    \/ remove_server_unlock
    \/ \E t \in LBTuples : remove(t)

LBNext == LBControl \/ LoadBalancePath

(***************************************************************************)
(* ProtocolParser::parse (ip.h:125-164) on a frame of len bytes whose      *)
(* Ethernet, IPv4 and TCP headers carry the fields of pkt.  The offsets    *)
(* and lengths of PacketMeta are uint16_t (types.h:217-224); len is a      *)
(* size_t.                                                                 *)
(***************************************************************************)
EthHeaderSize == 14
IPv4HeaderSize == 20
TcpHeaderSize == 20
UdpHeaderSize == 8
EtherTypeIPv4 == 2048
EtherTypeARP == 2054
ProtoICMP == 1
ProtoTCP == 6
ProtoUDP == 17

\* the frames parse is given
FrameLens == {13, 14, 33, 34, 54, 74, 94, 134}
EtherTypes == {EtherTypeIPv4, EtherTypeARP}
Ihls == {0, 5, 6, 15}
IpProtocols == {ProtoICMP, ProtoTCP, ProtoUDP}
DataOffsets == {0, 5, 15}
Frames ==
    [len : FrameLens, ether_type : EtherTypes, ihl : Ihls,
     protocol : IpProtocols, data_offset : DataOffsets]
\* what a field of a PacketMeta that nothing has assigned may hold
Indeterminate == {0, 65535}

\* conversion to uint16_t
to_uint16(n) == n % U16

\* IPv4Header::get_header_len, ip.h:31
ip_header_len(f) == f.ihl * 4
\* TcpHeader::get_header_len, ip.h:66
tcp_header_len(f) == f.data_offset * 4

\* parse, line 143: meta.l4_offset
parse_l4_offset(f) == to_uint16(EthHeaderSize + ip_header_len(f))

\* parse, line 146-160: meta.payload_offset
parse_payload_offset(f) ==
    IF f.protocol = ProtoTCP /\ f.len >= parse_l4_offset(f) + TcpHeaderSize
    THEN to_uint16(parse_l4_offset(f) + tcp_header_len(f))
    ELSE IF f.protocol = ProtoUDP /\ f.len >= parse_l4_offset(f) + UdpHeaderSize
         THEN to_uint16(parse_l4_offset(f) + UdpHeaderSize)
         ELSE parse_l4_offset(f)

\* parse, line 162: meta.payload_len = len - meta.payload_offset, computed in
\* size_t and converted to uint16_t
parse_payload_len(f) == to_uint16(f.len - parse_payload_offset(f))

\* the PacketMeta parse leaves behind, from the caller's PacketMeta m
parse_meta(f, m) ==
    IF f.len < EthHeaderSize
    THEN m
    ELSE IF f.ether_type # EtherTypeIPv4 \/ f.len < EthHeaderSize + IPv4HeaderSize
         THEN [m EXCEPT !.ether_type = f.ether_type,
                        !.l2_offset = 0,
                        !.l3_offset = EthHeaderSize]
         ELSE [ether_type |-> f.ether_type,
               ip_protocol |-> f.protocol,
               l2_offset |-> 0,
               l3_offset |-> EthHeaderSize,
               l4_offset |-> parse_l4_offset(f),
               payload_offset |-> parse_payload_offset(f),
               total_len |-> to_uint16(f.len),
               payload_len |-> parse_payload_len(f)]

\* what parse returns, line 126, 135, 136, 163
parse_result(f) ==
    IF f.len < EthHeaderSize
    THEN "false"
    ELSE IF f.ether_type # EtherTypeIPv4
         THEN "true"
         ELSE IF f.len < EthHeaderSize + IPv4HeaderSize THEN "false" ELSE "true"

NoFrame == [len |-> 0, ether_type |-> 0, ihl |-> 0, protocol |-> 0, data_offset |-> 0]

\* LoadBalancer::process_packet, loadbalancer.h:137: PacketMeta meta; has no
\* initializer, so the fields start indeterminate: l2 stands for what the
\* fields of the Ethernet layer hold, l3 for the others
new_meta ==
    /\ parse_ret # "unparsed"
    /\ \E l2 \in Indeterminate, l3 \in Indeterminate :
         meta' = [ether_type |-> l2, l2_offset |-> l2, l3_offset |-> l2,
                  ip_protocol |-> l3 % 256, l4_offset |-> l3, payload_offset |-> l3,
                  total_len |-> l3, payload_len |-> l3]
    /\ pkt' = NoFrame
    /\ parse_ret' = "unparsed"
    /\ ParserOnly

\* ProtocolParser::parse(pkt, len, meta), ip.h:125-164
parse(f) ==
    /\ parse_ret = "unparsed"
    /\ pkt' = f
    /\ meta' = parse_meta(f, meta)
    /\ parse_ret' = parse_result(f)
    /\ ParserOnly

ParserInit ==
    /\ pkt = NoFrame
    /\ meta = [ether_type |-> 0, ip_protocol |-> 0, l2_offset |-> 0, l3_offset |-> 0,
               l4_offset |-> 0, payload_offset |-> 0, total_len |-> 0,
               payload_len |-> 0]
    /\ parse_ret = "unparsed"

ParserNext ==
    \/ new_meta
    \/ \E f \in Frames : parse(f)

(***************************************************************************)
(* IpChecksum (ip.h:88-120): calculate over a header given as its 16-bit   *)
(* words, and incremental_update of a checksum for one replaced word.      *)
(***************************************************************************)
ChecksumWords == 2
WordValues == {0, 1, 4660, 32768, 65535}
Headers == [1..ChecksumWords -> WordValues]

\* ~x & 0xFFFF, and the conversion of ~sum to uint16_t
not16(x) == (U16 - 1) - x

\* line 101-103 and 115-117: while (sum >> 16) sum = (sum & 0xFFFF) + (sum >> 16)
RECURSIVE fold16(_)
fold16(sum) ==
    IF sum \div U16 # 0 THEN fold16((sum % U16) + (sum \div U16)) ELSE sum

\* line 94-97: sum += *ptr++ over the words of the header
RECURSIVE sum_words(_)
sum_words(h) ==
    IF h = <<>> THEN 0 ELSE h[1] + sum_words(Tail(h))

\* IpChecksum::calculate, line 90-105
calculate(h) == not16(fold16(sum_words(h)))

\* an incremental_update that adds new_val without taking out old_val
incremental_update_keeps_old(old_sum, old_val, new_val) ==
    not16(fold16(not16(old_sum) + new_val))

\* IpChecksum::incremental_update, line 113-119
incremental_update(old_sum, old_val, new_val) ==
    not16(fold16(not16(old_sum) + not16(old_val) + new_val))

ChecksumInit ==
    ck = [h0 |-> [i \in 1..ChecksumWords |-> 0], field |-> 1, f_new |-> 0,
          c |-> 0, incremental |-> 0, recomputed |-> 0, done |-> FALSE]

\* c = calculate(h0); one word of h0 is replaced; the checksum is brought up to
\* date by incremental_update, and computed afresh by calculate
checksum_replace(h0, field, f_new) ==
    /\ ck' = [h0 |-> h0, field |-> field, f_new |-> f_new,
              c |-> calculate(h0),
              incremental |-> incremental_update(calculate(h0), h0[field], f_new),
              recomputed |-> calculate([h0 EXCEPT ![field] = f_new]),
              done |-> TRUE]
    /\ ChecksumOnly

ChecksumNext ==
    \E h0 \in Headers, field \in 1..ChecksumWords, f_new \in WordValues :
      checksum_replace(h0, field, f_new)

(***************************************************************************)
(* LoadBalancer::process_packet (loadbalancer.h:77-234), called by one     *)
(* thread, one packet after the other, between calls of the control plane. *)
(* ArpHeader, ArpHandler, IcmpHandler and the forwarders are not part of   *)
(* the sources: an ARP header has the 28 bytes of RFC 826, and the         *)
(* handlers and forward return either value.                               *)
(***************************************************************************)
PktMaxPackets == 2
ArpHeaderSize == 28
EtherTypeIPv6 == 34525

\* the frames process_packet is given: IPv4 frames of the three protocols
\* with headers without options, and frames of two other EtherTypes, whose
\* bytes after the Ethernet header process_packet does not read as IPv4
PacketLens == {13, 14, 34, 54}
IPv4Frames ==
    [len : PacketLens, ether_type : {EtherTypeIPv4}, ihl : {5},
     protocol : IpProtocols, data_offset : {5}]
OtherFrames ==
    [len : PacketLens, ether_type : {EtherTypeARP, EtherTypeIPv6}, ihl : {0},
     protocol : {0}, data_offset : {0}]
PacketFrames == IPv4Frames \cup OtherFrames
\* the flows the TCP and UDP frames belong to
PacketFlows == {t \in Tuples : t.src_port \in {80, 12346}}
FlowOf(f) == CHOOSE t \in PacketFlows : f.protocol \in {ProtoTCP, ProtoUDP} => t.protocol = f.protocol

\* parse, line 146-160: the ports are read when the frame holds the whole
\* TCP or UDP header, and are 0 otherwise
ports_parsed(f) ==
    \/ f.protocol = ProtoTCP /\ f.len >= parse_l4_offset(f) + TcpHeaderSize
    \/ f.protocol = ProtoUDP /\ f.len >= parse_l4_offset(f) + UdpHeaderSize

\* PacketMeta::to_five_tuple of a frame of flow t, types.h:230-232
to_five_tuple(f, t) ==
    IF ports_parsed(f) THEN t ELSE [t EXCEPT !.src_port = 0, !.dst_port = 0]

PacketTuples == {to_five_tuple(f, t) : f \in PacketFrames, t \in PacketFlows}
PacketTupleHash == [t \in PacketTuples |-> [pad \in Pads |-> hash_tuple(t, pad)]]

NoStats ==
    [rx_packets |-> 0, tx_packets |-> 0, dropped_packets |-> 0, arp_packets |-> 0,
     icmp_packets |-> 0, tcp_packets |-> 0, udp_packets |-> 0,
     forwarded_packets |-> 0, nat_translations |-> 0]

\* ++stats_.<counter>
count(st, counter) == [st EXCEPT ![counter] = @ + 1]

\* select_server(tuple), real_server.h:82-94, run without interruption
select_server(t, pad) ==
    LET res == get_server(hash_ring_, PacketTupleHash[t][pad], NullServer)
    IN IF res.ret THEN select_backend(res.server_id) ELSE NullServer

\* a handle_loadbalance that creates the session before it looks at what
\* select_server returned
handle_loadbalance_creates_first(st, f, t, pad, forward_hit, forward_new) ==
    LET hit == t \in DOMAIN sessions_
        looked == IF hit THEN [sessions_ EXCEPT ![t].last_active = clock] ELSE sessions_
        rs_hit == IF hit /\ sessions_[t].real_server_id \in DOMAIN servers_
                  THEN sessions_[t].real_server_id ELSE NullServer
        rs_status == IF rs_hit # NullServer THEN servers_[rs_hit].status ELSE "none"
        rs == select_server(t, pad)
    IN IF hit /\ rs_hit # NullServer /\ forward_hit
       THEN [hit_rs |-> rs_hit, hit_status |-> rs_status, ret |-> TRUE, path |-> "session",
             stats |-> count(count(st, "forwarded_packets"), "tx_packets"),
             sessions |-> [looked EXCEPT ![t].packets = @ + 1, ![t].bytes = @ + f.len],
             active |-> active_sessions]
       ELSE IF rs # NullServer /\ forward_new
            THEN [hit_rs |-> rs_hit, hit_status |-> rs_status, ret |-> TRUE, path |-> "new",
                  stats |-> count(count(count(st, "forwarded_packets"),
                                        "nat_translations"), "tx_packets"),
                  sessions |-> MapPut(looked, t, new_session(rs, clock)),
                  active |-> active_sessions + 1]
            ELSE [hit_rs |-> rs_hit, hit_status |-> rs_status, ret |-> FALSE,
                  path |-> IF rs = NullServer THEN "no_backend" ELSE "forward_failed",
                  stats |-> count(st, "dropped_packets"),
                  sessions |-> MapPut(looked, t, new_session(rs, clock)),
                  active |-> active_sessions + 1]

\* a get_server that hands out available backends only
session_backend_if_available(t) ==
    IF /\ t \in DOMAIN sessions_
       /\ sessions_[t].real_server_id \in DOMAIN servers_
       /\ is_available(servers_[sessions_[t].real_server_id])
    THEN sessions_[t].real_server_id ELSE NullServer
\* handle_loadbalance, line 202-204: lookup, then get_server of the session's
\* real_server_id (real_server.h:99-103), which does not look at the status
session_backend(t) ==
    IF t \in DOMAIN sessions_ /\ sessions_[t].real_server_id \in DOMAIN servers_
    THEN sessions_[t].real_server_id ELSE NullServer

\* handle_loadbalance, line 196-234; forward_hit and forward_new are what
\* forwarder_->forward returns at line 205 and 225
handle_loadbalance(st, f, t, pad, forward_hit, forward_new) ==
    LET hit == t \in DOMAIN sessions_
        looked == IF hit THEN [sessions_ EXCEPT ![t].last_active = clock] ELSE sessions_
        rs_hit == session_backend(t)
        rs_status == IF rs_hit # NullServer THEN servers_[rs_hit].status ELSE "none"
        rs == select_server(t, pad)
    IN IF hit /\ rs_hit # NullServer /\ forward_hit
       THEN [hit_rs |-> rs_hit, hit_status |-> rs_status, ret |-> TRUE, path |-> "session",
             stats |-> count(count(st, "forwarded_packets"), "tx_packets"),
             sessions |-> [looked EXCEPT ![t].packets = @ + 1, ![t].bytes = @ + f.len],
             active |-> active_sessions]
       ELSE IF rs = NullServer
            THEN [hit_rs |-> rs_hit, hit_status |-> rs_status, ret |-> FALSE, path |-> "no_backend",
                  stats |-> count(st, "dropped_packets"),
                  sessions |-> looked, active |-> active_sessions]
            ELSE IF forward_new
                 THEN [hit_rs |-> rs_hit, hit_status |-> rs_status, ret |-> TRUE, path |-> "new",
                       stats |-> count(count(count(st, "forwarded_packets"),
                                             "nat_translations"), "tx_packets"),
                       sessions |-> MapPut(looked, t, new_session(rs, clock)),
                       active |-> active_sessions + 1]
                 ELSE [hit_rs |-> rs_hit, hit_status |-> rs_status, ret |-> FALSE, path |-> "forward_failed",
                       stats |-> count(st, "dropped_packets"),
                       sessions |-> MapPut(looked, t, new_session(rs, clock)),
                       active |-> active_sessions + 1]

\* what a call leaves when it touches no session
no_session_change(ret, path, st) ==
    [hit_rs |-> NullServer, hit_status |-> "none", ret |-> ret, path |-> path,
     stats |-> st, sessions |-> sessions_, active |-> active_sessions]

\* handle_arp, line 117-131; reply is what ArpHandler::handle returns
handle_arp(st, f, reply) ==
    IF f.len < EthHeaderSize + ArpHeaderSize
    THEN no_session_change(FALSE, "arp_truncated", st)
    ELSE IF reply
         THEN no_session_change(TRUE, "arp", count(count(st, "arp_packets"), "tx_packets"))
         ELSE no_session_change(FALSE, "arp", count(st, "arp_packets"))

\* handle_ipv4, line 136-169, and handle_icmp, line 174-191; to_vip is
\* meta.dst_ip == local_ip_, echo what handle_echo_request returns
handle_ipv4(st, f, to_vip, t, pad, echo, forward_hit, forward_new) ==
    IF parse_result(f) = "false"
    THEN no_session_change(FALSE, "rejected", count(st, "dropped_packets"))
    ELSE IF f.protocol = ProtoICMP /\ to_vip
         THEN IF echo
              THEN no_session_change(TRUE, "icmp",
                                     count(count(st, "icmp_packets"), "tx_packets"))
              ELSE no_session_change(FALSE, "icmp", count(st, "icmp_packets"))
         ELSE IF ~to_vip
              THEN no_session_change(FALSE, "not_vip", st)
              ELSE IF f.protocol = ProtoTCP
                   THEN handle_loadbalance(count(st, "tcp_packets"), f, to_five_tuple(f, t),
                                           pad, forward_hit, forward_new)
                   ELSE IF f.protocol = ProtoUDP
                        THEN handle_loadbalance(count(st, "udp_packets"), f,
                                                to_five_tuple(f, t), pad,
                                                forward_hit, forward_new)
                        ELSE no_session_change(FALSE, "other_protocol", st)

\* process_packet after the test of running_, line 80-100
process_running(f, to_vip, t, pad, reply, echo, forward_hit, forward_new) ==
    LET st == count(stats_, "rx_packets")
    IN IF f.len < EthHeaderSize
       THEN no_session_change(FALSE, "short", count(st, "dropped_packets"))
       ELSE IF f.ether_type = EtherTypeARP
            THEN handle_arp(st, f, reply)
            ELSE IF f.ether_type = EtherTypeIPv4
                 THEN handle_ipv4(st, f, to_vip, t, pad, echo, forward_hit, forward_new)
                 ELSE no_session_change(FALSE, "other_ethertype",
                                        count(st, "dropped_packets"))

NoPacket == [f |-> NoFrame, to_vip |-> FALSE, ret |-> FALSE, path |-> "none",
             hit_rs |-> NullServer, hit_status |-> "none"]

packet_frame ==
    UNCHANGED <<servers_, hash_ring_, reg_mutex, hring_mutex, sess_mutex, timeout_sec_,
                clock, ctl, wk, lb_hist>>

\* LoadBalancer::process_packet, line 77-101
process_packet(f, to_vip, t, pad, reply, echo, forward_hit, forward_new) ==
    /\ ctl.pc = "idle"
    /\ stats_.rx_packets < PktMaxPackets
    /\ IF ~running_
       THEN /\ pp' = [f |-> f, to_vip |-> to_vip, ret |-> FALSE, path |-> "stopped",
                       hit_rs |-> NullServer, hit_status |-> "none"]
            /\ UNCHANGED <<stats_, sessions_, active_sessions>>
       ELSE LET res == process_running(f, to_vip, t, pad, reply, echo,
                                       forward_hit, forward_new)
            IN /\ pp' = [f |-> f, to_vip |-> to_vip, ret |-> res.ret, path |-> res.path,
                          hit_rs |-> res.hit_rs, hit_status |-> res.hit_status]
               /\ stats_' = res.stats
               /\ sessions_' = res.sessions
               /\ active_sessions' = res.active
    /\ UNCHANGED running_
    /\ packet_frame
    /\ PacketOnly

\* LoadBalancer::init, line 37-72, with the servers already loaded
lb_init ==
    /\ ~running_
    /\ running_' = TRUE
    /\ UNCHANGED <<stats_, pp, sessions_, active_sessions>>
    /\ packet_frame
    /\ PacketOnly

\* LoadBalancer::stop, line 111
lb_stop ==
    /\ running_
    /\ running_' = FALSE
    /\ UNCHANGED <<stats_, pp, sessions_, active_sessions>>
    /\ packet_frame
    /\ PacketOnly

PacketInit ==
    /\ running_ = FALSE
    /\ stats_ = NoStats
    /\ pp = NoPacket

\* the control plane next to the packet path: one backend comes, goes and
\* changes its status
PacketControl ==
    \/ add_server_store(1, 1, "UP")
    \/ add_server_ring_lock
    \/ add_server_ring
    \/ add_server_unlock
    \/ remove_server_erase(1)
    \/ remove_server_ring_lock
    \/ remove_server_ring
    \/ remove_server_unlock
    \/ \E status \in Statuses : set_status_store(1, status)
    \/ set_status_unlock

PacketNext ==
    \/ lb_init
    \/ lb_stop
    \/ PacketControl
    \/ \E f \in OtherFrames, reply \in BOOLEAN :
         process_packet(f, FALSE, FlowOf(f), <<0, 0, 0>>, reply, FALSE, FALSE, FALSE)
    \/ \E f \in {g \in IPv4Frames : g.protocol = ProtoICMP}, to_vip \in BOOLEAN,
          echo \in BOOLEAN :
         process_packet(f, to_vip, FlowOf(f), <<0, 0, 0>>, FALSE, echo, FALSE, FALSE)
    \/ \E f \in {g \in IPv4Frames : g.protocol # ProtoICMP}, to_vip \in BOOLEAN,
          pad \in Pads, forward_hit \in BOOLEAN, forward_new \in BOOLEAN :
         process_packet(f, to_vip, FlowOf(f), pad, FALSE, FALSE, forward_hit, forward_new)

(***************************************************************************)
(* Specifications                                                          *)
(***************************************************************************)
(***************************************************************************)
(* The L7 proxy of main.cpp: main, ff_loop, handle_event, handle_accept,   *)
(* forward_data and close_connection.  The socket layer (ff_accept,        *)
(* ff_socket, ff_read, ff_write, ff_epoll_wait) and select_server are the  *)
(* inputs: a new descriptor is a non-negative number that is not open, an  *)
(* event any registered descriptor with any set of flags.  The code tells  *)
(* descriptors apart by identity and by the test fd > 0 only, so a new     *)
(* descriptor is drawn as 0 or as the lowest positive number not open.     *)
(***************************************************************************)
ProxyMaxFd == 5
ProxyMaxConns == 2
ProxyMaxData == 1
ProxyMaxFlags == 2

Fds == 0..ProxyMaxFd
\* what accept, socket and connect return on failure, and the initial
\* value of g_epfd and g_listen_fd, main.cpp:47-48
NoFd == 0 - 1
EpollFlags == {"EPOLLIN", "EPOLLOUT", "EPOLLERR", "EPOLLHUP"}
EventSets == {fs \in SUBSET EpollFlags : fs # {} /\ Cardinality(fs) <= ProxyMaxFlags}
\* ff_read: n > 0, n = 0, EAGAIN, another error; ff_write: written, EAGAIN,
\* another error
ReadResults == {"data", "eof", "eagain", "error"}
WriteResults == {"written", "eagain", "error"}
\* an event and what the socket layer answers while it is handled: ff_read is
\* called for EPOLLIN only, ff_write after a read of n > 0 bytes only
Events ==
    {e \in [events : EventSets, rd : ReadResults, wr : WriteResults] :
        /\ "EPOLLIN" \notin e.events => e.rd = "eagain"
        /\ e.rd # "data" => e.wr = "written"}

\* g_stats after static initialisation, main.cpp:50
NoProxyStats ==
    [active_sessions |-> 0, total_sessions |-> 0, dropped_packets |-> 0,
     rx_packets |-> 0, tx_packets |-> 0, forwarded_packets |-> 0]

\* new Connection() as handle_accept fills it, line 201-208; buf_len stands
\* for client_buf_len and backend_buf_len, which new Connection() sets to 0;
\* frees counts the delete expressions applied to the object, backend_eof
\* records that a read on the backend descriptor returned 0
NewConnection(client_fd, backend_fd) ==
    [client_fd |-> client_fd, backend_fd |-> backend_fd, backend_connected |-> FALSE,
     buf_len |-> 0, backend_eof |-> FALSE, frees |-> 0]

\* the memory of a deleted Connection holds no defined value
FreedConnection(frees) ==
    [client_fd |-> NoFd, backend_fd |-> NoFd, backend_connected |-> FALSE,
     buf_len |-> 0, backend_eof |-> FALSE, frees |-> frees]

\* the descriptors the socket layer may hand out while those of open are open
NewFds(open) ==
    LET free == Fds \ open
        positive == {x \in free : x > 0}
    IN {x \in free : x = 0 \/ \A y \in positive : x <= y}

NoEvent == [fd |-> NoFd, kind |-> "none", conn |-> 0, out |-> FALSE]

\* unordered_map::erase of each key of a set
MapEraseAll(m, ks) == [x \in DOMAIN m \ ks |-> m[x]]

\* forward_data, line 255-303, on what ff_read and ff_write return
forward_data(st, from_client, rd, wr) ==
    IF rd = "error" THEN [ok |-> FALSE, from_closed |-> FALSE, io |-> "read_error", stats |-> st]
    ELSE IF rd = "eagain"
    THEN [ok |-> TRUE, from_closed |-> FALSE, io |-> "read_eagain", stats |-> st]
    ELSE IF rd = "eof" THEN [ok |-> TRUE, from_closed |-> TRUE, io |-> "eof", stats |-> st]
    ELSE IF wr = "error"
    THEN [ok |-> FALSE, from_closed |-> FALSE, io |-> "write_error", stats |-> st]
    ELSE [ok |-> TRUE, from_closed |-> FALSE,
          io |-> IF wr = "eagain" THEN "write_eagain" ELSE "written",
          stats |-> IF from_client
                    THEN count(count(st, "rx_packets"), "forwarded_packets")
                    ELSE count(st, "tx_packets")]

\* what handle_event decides for the Connection with the fields cf, bf, bc
\* (client_fd, backend_fd, backend_connected), line 322-388
event_outcome(st, fd, events, rd, wr, cf, bf, bc) ==
    LET connected == bc \/ (fd = bf /\ "EPOLLOUT" \in events)
        from_client == fd = cf
        reads == /\ "EPOLLIN" \in events
                 /\ \/ from_client /\ connected
                    \/ ~from_client /\ fd = bf
        fwd == forward_data(st, from_client, rd, wr)
        hup == "EPOLLHUP" \in events /\ fd # bf
    IN IF "EPOLLERR" \in events
       THEN [close |-> TRUE, connected |-> bc, eof |-> FALSE, io |-> "none", stats |-> st]
       ELSE IF fd = bf /\ ~bc /\ "EPOLLOUT" \notin events
       THEN [close |-> FALSE, connected |-> bc, eof |-> FALSE, io |-> "none", stats |-> st]
       ELSE IF reads
       THEN IF ~fwd.ok \/ (from_client /\ fwd.from_closed)
            THEN [close |-> TRUE, connected |-> connected, eof |-> FALSE,
                  io |-> fwd.io, stats |-> fwd.stats]
            ELSE [close |-> hup, connected |-> connected,
                  eof |-> ~from_client /\ fwd.from_closed,
                  io |-> fwd.io, stats |-> fwd.stats]
       ELSE [close |-> hup, connected |-> connected, eof |-> FALSE, io |-> "none",
             stats |-> st]

\* the kind of an event on a Connection: EPOLLERR, a failed read or write,
\* the client's FIN (the client descriptor is readable and a read returns 0),
\* the backend's FIN read by forward_data, a relay whose write loop was left
\* at EAGAIN with bytes of buf unwritten (line 282-286), any other
event_kind(fd, events, rd, io, cf) ==
    IF "EPOLLERR" \in events THEN "epollerr"
    ELSE IF io \in {"read_error", "write_error"} THEN "io_error"
    ELSE IF "EPOLLIN" \in events /\ rd = "eof" /\ fd = cf THEN "client_fin"
    ELSE IF io = "eof" THEN "backend_fin"
    ELSE IF io = "write_eagain" THEN "short_write"
    ELSE "other"

\* the descriptors close_connection closes and erases, line 236-246
closed_by(cf, bf) == {x \in {cf, bf} : x > 0}

\* close_connection(conn), line 230-250, for the Connection at address c
\* whose fields read cf and bf
close_connection(st, c, cf, bf) ==
    /\ epoll_fds' = epoll_fds \ closed_by(cf, bf)
    /\ open_fds' = open_fds \ closed_by(cf, bf)
    /\ g_connections' = MapEraseAll(g_connections, closed_by(cf, bf))
    /\ heap' = [heap EXCEPT ![c] = FreedConnection(heap[c].frees + 1)]
    /\ g_stats' = [st EXCEPT !.active_sessions = @ - 1]

\* handle_event on the Connection at address c with the fields cf, bf, bc
event_on(c, fd, events, rd, wr, cf, bf, bc) ==
    LET res == event_outcome(g_stats, fd, events, rd, wr, cf, bf, bc)
    IN /\ res.stats.rx_packets <= ProxyMaxData
       /\ res.stats.tx_packets <= ProxyMaxData
       /\ ev' = [fd |-> fd, kind |-> event_kind(fd, events, rd, res.io, cf), conn |-> c,
                 out |-> fd = bf /\ ~bc /\ "EPOLLOUT" \in events]
       /\ IF res.close
          THEN close_connection(res.stats, c, cf, bf)
          ELSE /\ heap' = [heap EXCEPT ![c].backend_connected = res.connected,
                                       ![c].backend_eof = @ \/ res.eof]
               /\ g_stats' = res.stats
               /\ UNCHANGED <<epoll_fds, open_fds, g_connections>>

proxy_frame == UNCHANGED <<main_pc, g_running, g_epfd, g_listen_fd>>

\* main, line 416-498: ff_epoll_create, create_listen_socket, epoll add
main_start(epfd, listen_fd) ==
    /\ main_pc = "start"
    /\ main_pc' = "running"
    /\ g_epfd' = epfd
    /\ g_listen_fd' = listen_fd
    /\ open_fds' = {epfd, listen_fd}
    /\ epoll_fds' = {listen_fd}
    /\ UNCHANGED <<g_running, g_stats, g_connections, heap, ev, uaf>>
    /\ ProxyOnly

\* signal_handler, line 73-77
signal_handler ==
    /\ main_pc = "running"
    /\ g_running' = FALSE
    /\ UNCHANGED <<main_pc, g_epfd, g_listen_fd, g_stats, g_connections, heap, open_fds,
                   epoll_fds, ev, uaf>>
    /\ ProxyOnly

\* handle_accept, line 158-225, for an event on g_listen_fd: client_fd is
\* what ff_accept returns, has_rs whether select_server returns a backend,
\* backend_fd what connect_to_backend returns
handle_accept(client_fd, has_rs, backend_fd) ==
    /\ main_pc = "running"
    /\ ~uaf
    /\ g_listen_fd \in epoll_fds
    /\ client_fd \in NewFds(open_fds) \cup {NoFd}
    /\ backend_fd \in NewFds(open_fds \cup (Fds \cap {client_fd})) \cup {NoFd}
    /\ IF client_fd = NoFd \/ ~has_rs \/ backend_fd = NoFd
       THEN /\ ev' = [fd |-> g_listen_fd,
                      kind |-> IF client_fd = NoFd THEN "accept_failed"
                               ELSE IF ~has_rs THEN "no_backend" ELSE "connect_failed",
                      conn |-> 0, out |-> FALSE]
            /\ UNCHANGED <<g_stats, g_connections, heap, open_fds, epoll_fds>>
       ELSE /\ g_stats.total_sessions < ProxyMaxConns
            /\ ev' = [fd |-> g_listen_fd, kind |-> "accepted", conn |-> Len(heap) + 1,
                      out |-> FALSE]
            /\ heap' = Append(heap, NewConnection(client_fd, backend_fd))
            /\ g_connections' = MapPut(MapPut(g_connections, client_fd, Len(heap) + 1),
                                       backend_fd, Len(heap) + 1)
            /\ open_fds' = open_fds \cup {client_fd, backend_fd}
            /\ epoll_fds' = epoll_fds \cup {client_fd, backend_fd}
            /\ g_stats' = count(count(g_stats, "active_sessions"), "total_sessions")
    /\ UNCHANGED uaf
    /\ proxy_frame
    /\ ProxyOnly

\* handle_event, line 308-389, for an event on a descriptor other than
\* g_listen_fd.  A Connection that was deleted is read through the dangling
\* pointer: its fields have any value.
handle_event_connection(fd, events, rd, wr) ==
    /\ main_pc = "running"
    /\ ~uaf
    /\ fd # g_listen_fd
    /\ IF fd \notin DOMAIN g_connections
       THEN /\ ev' = [fd |-> fd, kind |-> "other", conn |-> 0, out |-> FALSE]
            /\ UNCHANGED <<g_stats, g_connections, heap, open_fds, epoll_fds, uaf>>
       ELSE LET c == g_connections[fd]
            IN IF heap[c].frees = 0
               THEN /\ event_on(c, fd, events, rd, wr, heap[c].client_fd,
                                heap[c].backend_fd, heap[c].backend_connected)
                    /\ UNCHANGED uaf
               ELSE /\ \E cf \in open_fds \cup {NoFd}, bf \in open_fds \cup {NoFd},
                          bc \in BOOLEAN :
                         event_on(c, fd, events, rd, wr, cf, bf, bc)
                    /\ uaf' = TRUE
    /\ proxy_frame

\* ff_loop, line 400-402: handle_event(&events[i]) for an event that
\* ff_epoll_wait has just reported
handle_event(fd, events, rd, wr) ==
    /\ handle_event_connection(fd, events, rd, wr)
    /\ ProxyOnly

NoBatch == [fd |-> NoFd, conn |-> 0, born |-> 0]

\* ff_loop, line 398: ff_epoll_wait fills events[] with what is ready now;
\* one of them, on a descriptor of a Connection, is handled after others of
\* the same batch.  born is the number of Connections allocated so far.
ff_epoll_wait(fd) ==
    /\ main_pc = "running"
    /\ ~uaf
    /\ batch = NoBatch
    /\ fd \in epoll_fds \cap DOMAIN g_connections
    /\ heap[g_connections[fd]].frees = 0
    /\ batch' = [fd |-> fd, conn |-> g_connections[fd], born |-> Len(heap)]
    /\ UNCHANGED proxy_vars
    /\ ProxyBatchOnly

\* the descriptors whose events may stand in events[] before the one of
\* batch: the listening socket and the descriptors of Connections that
\* were there when ff_epoll_wait returned
BatchedBefore ==
    {fd \in epoll_fds \ {batch.fd} :
        fd = g_listen_fd \/ (fd \in DOMAIN g_connections /\ g_connections[fd] <= batch.born)}

\* ff_loop, line 400-402: handle_event(&events[i]) for the event of batch,
\* whatever became of its descriptor since ff_epoll_wait returned
handle_event_batched(events, rd, wr) ==
    /\ batch # NoBatch
    /\ handle_event_connection(batch.fd, events, rd, wr)
    /\ batch' = NoBatch
    /\ ProxyBatchOnly

\* ff_loop, line 394-414, returns -1 once g_running is false, ff_run returns
\* and main returns 0, line 501-508
ff_loop_return ==
    /\ main_pc = "running"
    /\ ~g_running
    /\ main_pc' = "exited"
    /\ UNCHANGED <<g_running, g_epfd, g_listen_fd, g_stats, g_connections, heap, open_fds,
                   epoll_fds, ev, uaf>>
    /\ ProxyOnly

ProxyInit ==
    /\ main_pc = "start"
    /\ g_running = TRUE
    /\ g_epfd = NoFd
    /\ g_listen_fd = NoFd
    /\ g_stats = NoProxyStats
    /\ g_connections = [x \in {} |-> 0]
    /\ heap = <<>>
    /\ open_fds = {}
    /\ epoll_fds = {}
    /\ ev = NoEvent
    /\ uaf = FALSE
    /\ batch = NoBatch

\* ff_epoll_wait reports the registered descriptors
ProxyNext ==
    \/ \E epfd \in NewFds({}) : \E listen_fd \in NewFds({epfd}) :
         main_start(epfd, listen_fd)
    \/ signal_handler
    \/ \E client_fd \in Fds \cup {NoFd}, has_rs \in BOOLEAN, backend_fd \in Fds \cup {NoFd} :
         handle_accept(client_fd, has_rs, backend_fd)
    \/ \E fd \in epoll_fds, e \in Events : handle_event(fd, e.events, e.rd, e.wr)
    \/ ff_loop_return

\* the events of a batch one flag at a time
BatchEvents == {e \in Events : Cardinality(e.events) = 1}

\* ff_loop with batches of several events: the events handled between
\* ff_epoll_wait and the event of batch are of the same batch
ProxyBatchNext ==
    \/ \E epfd \in NewFds({}) : \E listen_fd \in NewFds({epfd}) :
         main_start(epfd, listen_fd)
    \/ \E client_fd \in Fds \cup {NoFd}, has_rs \in BOOLEAN, backend_fd \in Fds \cup {NoFd} :
         handle_accept(client_fd, has_rs, backend_fd)
    \/ \E fd \in epoll_fds : ff_epoll_wait(fd)
    \/ \E fd \in epoll_fds, e \in BatchEvents :
         /\ batch # NoBatch => fd \in BatchedBefore
         /\ handle_event(fd, e.events, e.rd, e.wr)
    \/ \E e \in BatchEvents : handle_event_batched(e.events, e.rd, e.wr)

(***************************************************************************)
(* The mutexes of RealServerManager (real_server.h:53-115) and of its       *)
(* ConsistentHashRing (consistent_hash.h:101-162), with every operation     *)
(* callable from every thread.  A call is the sequence of lock_guard        *)
(* constructions and destructions it runs through.                          *)
(***************************************************************************)
\* the threads that call into the registry
LockMaxThreads == 2
LockThreads == 1..LockMaxThreads
LockMutexes == {"registry", "ring"}
LockOps == {"add_server", "remove_server", "set_status", "select_server",
            "get_server", "get_all_servers", "count"}
\* a mutex that no thread holds
Unlocked == 0
NoCall == [op |-> "none", todo |-> <<>>]

\* add_server, real_server.h:53-57: lock mutex_; add_node locks and unlocks
\* hash_ring_.mutex_ (consistent_hash.h:102); unlock mutex_
add_server_locks ==
    << <<"lock", "registry">>, <<"lock", "ring">>, <<"unlock", "ring">>,
       <<"unlock", "registry">> >>
\* remove_server, real_server.h:62-66: lock mutex_; remove_node locks and
\* unlocks hash_ring_.mutex_ (consistent_hash.h:118); unlock mutex_
remove_server_locks ==
    << <<"lock", "registry">>, <<"lock", "ring">>, <<"unlock", "ring">>,
       <<"unlock", "registry">> >>
\* set_status (71-77), get_server (99-103), get_all_servers (108-116) and
\* count: lock mutex_; unlock mutex_
registry_only_locks == << <<"lock", "registry">>, <<"unlock", "registry">> >>
\* a select_server that takes mutex_ inside hash_ring_.get_server
select_server_locks_nested(hit) ==
    << <<"lock", "ring">>, <<"lock", "registry">>, <<"unlock", "registry">>,
       <<"unlock", "ring">> >>
\* select_server, real_server.h:82-94: hash_ring_.get_server locks and unlocks
\* hash_ring_.mutex_ (consistent_hash.h:133); on false return nullptr;
\* otherwise lock mutex_; unlock mutex_
select_server_locks(hit) ==
    IF hit
    THEN << <<"lock", "ring">>, <<"unlock", "ring">>, <<"lock", "registry">>,
            <<"unlock", "registry">> >>
    ELSE << <<"lock", "ring">>, <<"unlock", "ring">> >>

\* the locks and unlocks of one call, in program order
lock_guards(op, hit) ==
    CASE op = "add_server" -> add_server_locks
      [] op = "remove_server" -> remove_server_locks
      [] op = "select_server" -> select_server_locks(hit)
      [] OTHER -> registry_only_locks

\* thread th calls op; hit: whether the ring is non-empty at get_server
registry_call(th, op, hit) ==
    /\ lk_call[th] = NoCall
    /\ lk_call' = [lk_call EXCEPT ![th] = [op |-> op, todo |-> lock_guards(op, hit)]]
    /\ UNCHANGED lk_owner
    /\ LockOnly

\* std::lock_guard<std::mutex> lock(mutex_): blocks until the mutex is free
lock_guard_lock(th) ==
    /\ lk_call[th].todo # <<>>
    /\ Head(lk_call[th].todo)[1] = "lock"
    /\ lk_owner[Head(lk_call[th].todo)[2]] = Unlocked
    /\ lk_owner' = [lk_owner EXCEPT ![Head(lk_call[th].todo)[2]] = th]
    /\ lk_call' = [lk_call EXCEPT ![th].todo = Tail(@)]
    /\ LockOnly

\* ~lock_guard: unlock at the end of the scope
lock_guard_unlock(th) ==
    /\ lk_call[th].todo # <<>>
    /\ Head(lk_call[th].todo)[1] = "unlock"
    /\ lk_owner' = [lk_owner EXCEPT ![Head(lk_call[th].todo)[2]] = Unlocked]
    /\ lk_call' = [lk_call EXCEPT ![th].todo = Tail(@)]
    /\ LockOnly

\* the call returns
registry_return(th) ==
    /\ lk_call[th].op # "none"
    /\ lk_call[th].todo = <<>>
    /\ lk_call' = [lk_call EXCEPT ![th] = NoCall]
    /\ UNCHANGED lk_owner
    /\ LockOnly

LockInit ==
    /\ lk_owner = [m \in LockMutexes |-> Unlocked]
    /\ lk_call = [th \in LockThreads |-> NoCall]

LockNext ==
    \/ \E th \in LockThreads, op \in LockOps, hit \in BOOLEAN : registry_call(th, op, hit)
    \/ \E th \in LockThreads : lock_guard_lock(th)
    \/ \E th \in LockThreads : lock_guard_unlock(th)
    \/ \E th \in LockThreads : registry_return(th)

Init ==
    /\ SPSCInit /\ MPMCInit /\ RingInit /\ LBInit /\ ParserInit /\ ChecksumInit
    /\ PacketInit /\ ProxyInit /\ LockInit

SpecSPSC == Init /\ [][SPSCNext]_vars
SpecSPSCSeq == Init /\ [][SPSCSeqNext]_vars
SpecMPMC == Init /\ [][MPMCNext]_vars
SpecRing == Init /\ [][RingNext]_vars
SpecSession == Init /\ [][SessionNext]_vars
SpecRegistry == Init /\ [][RegistryNext]_vars
SpecLB == Init /\ [][LBNext]_vars
SpecParser == Init /\ [][ParserNext]_vars
SpecChecksum == Init /\ [][ChecksumNext]_vars
SpecPacket == Init /\ [][PacketNext]_vars
SpecProxy == Init /\ [][ProxyNext]_vars
\* ff_run calls ff_loop again and again: once g_running is false the loop
\* returns -1
SpecProxyFair == SpecProxy /\ WF_vars(ff_loop_return)
SpecProxyBatch == Init /\ [][ProxyBatchNext]_vars
SpecLocks == Init /\ [][LockNext]_vars
\* Every thread inside a call keeps running, and a thread that waits for a
\* mutex that is free again and again gets it at some time.
SpecLocksFair ==
    /\ SpecLocks
    /\ \A th \in LockThreads :
         /\ WF_vars(lock_guard_unlock(th) \/ registry_return(th))
         /\ SF_vars(lock_guard_lock(th))

\* Thread t1 keeps running and its compare_exchange_weak does not fail for
\* ever when it could succeed; the other threads may stall at any point, for
\* ever.
MPMCCasWins(t) ==
    (mpmc_push_cas(t) \/ mpmc_pop_cas(t)) /\ m_pc'[t] \in {"p_write", "c_read"}
SpecMPMCFair ==
    /\ Init
    /\ [][MPMCNext]_vars
    /\ WF_vars(MPMCPush("t1") \/ MPMCPop("t1"))
    /\ SF_vars(MPMCCasWins("t1"))

(***************************************************************************)
(* SPSC claims                                                             *)
(***************************************************************************)
IsPrefix(s, t) == Len(s) <= Len(t) /\ \A i \in 1..Len(s) : s[i] = t[i]

\* the number of pushed-but-not-yet-popped items
SPSCStored == Len(spsc_pushed) - Len(spsc_popped)
SPSCQuiescent == p_pc = "idle" /\ c_pc = "idle"
SPSCPushReturns == p_pc # "idle" /\ p_pc' = "idle"
SPSCPopReturns == c_pc # "idle" /\ c_pc' = "idle"

\* the producer writes and the consumer reads the same slot at the same time
SPSCSlotRace == p_pc = "write" /\ c_pc = "read" /\ p_current_tail = c_current_head

\* C1: with one producer and one consumer interleaved at the level of their
\* index loads, slot accesses and index stores, the items returned by the
\* successful pops are always a prefix of the items accepted by the successful
\* pushes (nothing lost, duplicated or reordered), the two threads never access
\* the same slot at once, and once the queue is drained (both threads outside
\* their calls, head = tail) the two sequences are equal.
C1_SPSCFifo ==
    /\ IsPrefix(spsc_popped, spsc_pushed)
    /\ ~SPSCSlotRace
    /\ (SPSCQuiescent /\ spsc_empty => spsc_popped = spsc_pushed)

\* C1 witness: both threads are in the middle of a call after tail has wrapped
\* around behind head, as many items as the buffer has slots having gone in.
C1_Witness ==
    /\ Len(spsc_pushed) >= SPSCSize
    /\ Len(spsc_popped) >= 1
    /\ p_pc = "store" /\ c_pc = "store"
    /\ spsc_tail < spsc_head

\* C2: the queue never holds more than Size-1 items; between non-overlapping
\* calls, push returns true and stores the item iff fewer than Size-1 items are
\* stored, and returns false with head, tail and the buffer unchanged and
\* full() true when exactly Size-1 items are stored.
C2_SPSCCapacity ==
    /\ [](SPSCStored <= SPSCSize - 1)
    /\ [][ /\ (p_pc = "idle" /\ p_pc' # "idle") =>
                 UNCHANGED <<spsc_head, spsc_tail, spsc_buffer>>
           /\ SPSCPushReturns =>
                 /\ p_ret' = (SPSCStored < SPSCSize - 1)
                 /\ p_ret' =>
                       /\ spsc_pushed' = Append(spsc_pushed, p_item)
                       /\ spsc_buffer[p_current_tail] = p_item
                       /\ spsc_size' = spsc_size + 1
                 /\ ~p_ret' =>
                       /\ SPSCStored = SPSCSize - 1
                       /\ spsc_full
                       /\ UNCHANGED <<spsc_head, spsc_tail, spsc_buffer>>
         ]_vars

\* C2 witness: a push was refused on a full queue after tail wrapped around.
C2_Witness ==
    /\ SPSCQuiescent
    /\ p_ret = FALSE
    /\ SPSCStored = SPSCSize - 1
    /\ Len(spsc_pushed) > SPSCSize
    /\ spsc_tail < spsc_head

\* C3: between non-overlapping calls size() is the number of pushed-but-not-
\* yet-popped items and empty() is true exactly when that number is 0; pop
\* returns false and changes nothing exactly when the queue is empty, and
\* otherwise returns the oldest stored item and size() decreases by one.
C3_SPSCSizeAndPop ==
    /\ [](SPSCQuiescent =>
            /\ spsc_size = SPSCStored
            /\ (spsc_empty <=> SPSCStored = 0))
    /\ [][ /\ (c_pc = "idle" /\ c_pc' # "idle") =>
                 UNCHANGED <<spsc_head, spsc_tail, spsc_buffer, c_item>>
           /\ SPSCPopReturns =>
                 /\ c_ret' = (SPSCStored > 0)
                 /\ c_ret' =>
                       /\ c_item = spsc_pushed[Len(spsc_popped) + 1]
                       /\ spsc_popped' = Append(spsc_popped, c_item)
                       /\ spsc_size' = spsc_size - 1
                 /\ ~c_ret' =>
                       UNCHANGED <<spsc_head, spsc_tail, spsc_buffer, c_item>>
         ]_vars

\* C3 witness: every item was popped, across a wrap-around, and a further pop
\* on the empty queue returned false.
C3_Witness ==
    /\ SPSCQuiescent
    /\ c_ret = FALSE
    /\ Len(spsc_popped) = SPSCMaxPush
    /\ spsc_size = 0

(***************************************************************************)
(* MPMC claims                                                             *)
(***************************************************************************)
MPMCAllIdle == \A t \in Threads : m_pc[t] = "idle"
\* the step of t returns false: push found the queue full, pop found it empty
MPMCReturnsFalse(t) == m_pc[t] \in {"p_seq", "c_seq"} /\ m_pc'[t] = "idle"
\* the step of t ends a loop iteration that neither returned nor won its CAS
MPMCRetries(t) ==
    /\ m_pc[t] \in {"p_seq", "p_cas", "c_seq", "c_cas"}
    /\ m_pc'[t] \in {"p_load", "c_load"}
\* the index t's iteration loaded has been advanced since
MPMCIndexMoved(t) ==
    IF m_pc[t] \in PushPcs THEN mpmc_tail > m_pos[t] ELSE mpmc_head > m_pos[t]

\* C4: under every interleaving of the steps of push and pop on any threads,
\* no value is returned by more pops than pushes accepted it (nothing is
\* popped twice, nothing is popped that was never pushed, the value of an
\* unwritten slot is never returned), and once the queue is drained (no call
\* in flight, head = tail) every accepted value has been returned exactly as
\* often as it was accepted.
C4_MPMCExactlyOnce ==
    /\ mpmc_returned[MPMCDefault] = 0
    /\ \A v \in MPMCValues : mpmc_returned[v] <= mpmc_accepted[v]
    /\ (MPMCAllIdle /\ mpmc_head = mpmc_tail =>
          \A v \in MPMCValues : mpmc_returned[v] = mpmc_accepted[v])

\* C4 witness: the queue was drained after the slots were reused, and both
\* values went through it.
C4_Witness ==
    /\ MPMCAllIdle
    /\ mpmc_head = mpmc_tail
    /\ mpmc_tail > MPMCSize
    /\ \A v \in MPMCValues : mpmc_returned[v] >= 1

\* C5: push and pop are linearizable with respect to a bounded FIFO queue of
\* capacity Size, the calls that return false included.  A call that returns
\* false must then take effect at some moment between its invocation and its
\* return at which the queue is full (push) or empty (pop); so it cannot
\* return false when at every such moment the queue certainly had a free slot
\* (push) or certainly held an item (pop), whatever the order in which the
\* calls in flight take effect.
C5_MPMCLinearizable ==
    [][\A t \in Threads : MPMCReturnsFalse(t) => ~m_sure[t]]_vars

RingBackends == {ring_[p] : p \in DOMAIN ring_}
\* What get_server answers in the current state for the tuple object (t, pad)
RingLookup(t, pad) == get_server(ring_, TupleHash[t][pad], RingNoId)

\* C7: on an unchanged ring, two calls of get_server with tuples that are
\* equal in src_ip, dst_ip, src_port, dst_port and protocol return the same
\* result and the same backend id.  Two consecutive get_server steps are two
\* calls on an unchanged ring; ring_op[2] holds the five fields of the tuple.
C7_LookupDependsOnFieldsOnly ==
    [][(/\ ring_op[1] = "get_server"
        /\ ring_op'[1] = "get_server"
        /\ ring_op'[2] = ring_op[2])
       => (g_ret' = g_ret /\ g_server_id' = g_server_id)]_vars

\* C8: for every ring and every tuple object whose lookup returns X, a step
\* remove_node(Y) with Y # X leaves the lookup of that tuple object at X.
C8_RemoveKeepsOtherBindings ==
    [][\A y \in ServerIds :
         (ring_op'[1] = "remove_node" /\ ring_op'[2] = y)
         => \A t \in Tuples, pad \in Pads :
              LET before == get_server(ring_, TupleHash[t][pad], RingNoId)
                  after == get_server(ring_', TupleHash[t][pad], RingNoId)
              IN (before.ret /\ before.server_id # y) => after = before]_vars

\* a remove_node that erased entries and left at least two backends behind
C8_Witness ==
    /\ ring_op[1] = "remove_node"
    /\ ring_op[3] > 0
    /\ Cardinality(RingBackends) >= 2

\* C9: a get_server step returns false exactly when the ring has no entry,
\* and then leaves the caller's server_id as it was; otherwise it returns true
\* and server_id is the id of the entry with the smallest position >= the hash
\* of the tuple object, or of the entry with the smallest position of all when
\* no position is >= the hash.
C9_GetServerContract ==
    [][ring_op'[1] = "get_server"
       => LET hash == TupleHash[ring_op'[2]][ring_op'[3]]
              atOrAfter == {p \in DOMAIN ring_ : le32(hash, p)}
              from == IF atOrAfter = {} THEN DOMAIN ring_ ELSE atOrAfter
          IN /\ g_ret' = (DOMAIN ring_ # {})
             /\ ~g_ret' => g_server_id' = g_server_id
             /\ g_ret' => \E p \in from : /\ \A q \in from : le32(p, q)
                                         /\ g_server_id' = ring_[p]]_vars

\* get_server has just returned false on an emptied ring, and the caller's
\* server_id still holds the id an earlier call stored
C9_Witness ==
    /\ ring_op[1] = "get_server"
    /\ ~g_ret
    /\ g_server_id \in ServerIds

\* C10: after any sequence of add_node, remove_node and clear, a lookup only
\* returns an id that was added and not removed (or cleared) since, and when
\* one backend alone owns the ring every tuple maps to it.
C10_OnlyLiveBackends ==
    /\ (ring_op[1] = "get_server" /\ g_ret) => ring_status[g_server_id] = "added"
    /\ \A t \in Tuples, pad \in Pads :
         RingLookup(t, pad).ret
         => /\ ring_status[RingLookup(t, pad).server_id] = "added"
            /\ \A id \in ServerIds :
                 RingBackends = {id} => RingLookup(t, pad).server_id = id

\* get_server has just returned an id while some backend is removed and
\* another one is still in the ring
C10_Witness ==
    /\ ring_op[1] = "get_server"
    /\ g_ret
    /\ \E id \in ServerIds : ring_status[id] = "removed"
    /\ Cardinality(RingBackends) >= 2

(***************************************************************************)
(* Registry: claims                                                        *)
(***************************************************************************)
\* the ring entries of a backend
HashRingEntries(id) == {p \in DOMAIN hash_ring_ : hash_ring_[p] = id}
\* the backends that own at least one entry of hash_ring_
HashRingBackends == {hash_ring_[p] : p \in DOMAIN hash_ring_}
\* no registry operation is in progress
RegistryQuiescent == ctl.pc = "idle"
\* the mutexes a thread holds
MutexesHeld(th) ==
    (IF reg_mutex = th THEN {"registry"} ELSE {})
    \cup (IF hring_mutex = th THEN {"ring"} ELSE {})
    \cup (IF sess_mutex = th THEN {"session"} ELSE {})

\* C11: after any sequence of add_server (re-adding a registered id with the
\* same or another weight included), remove_server and set_status, every
\* registered backend of weight w > 0 owns exactly max(1, floor(V*w/100)) ring
\* entries, V = 150 being the virtual-node base of the registry's ring.
C11_ReplicaCount ==
    RegistryQuiescent
    => \A id \in DOMAIN servers_ :
         servers_[id].weight > 0
         => Cardinality(HashRingEntries(id))
              = (IF (RegistryVirtualNodes * servers_[id].weight) \div 100 >= 1
                 THEN (RegistryVirtualNodes * servers_[id].weight) \div 100 ELSE 1)

\* C15: select_server returns nullptr when the ring is empty, and otherwise
\* looks at the one backend the ring maps the tuple to: it returns that
\* backend when it is registered with status UP at the moment of the check and
\* nullptr otherwise; it never returns another backend.
C15_SelectServer ==
    [][/\ (wk.pc = "sel_ring" /\ wk' # wk)
          => IF DOMAIN hash_ring_ = {}
             THEN wk'.pc = "idle"
             ELSE /\ wk'.pc = "sel_reg_lock"
                  /\ wk'.server_id
                       = get_server(hash_ring_, TupleHash[wk.tuple][wk.pad], NullServer).server_id
       /\ (wk.pc = "sel_reg" /\ wk' # wk)
          => IF wk.server_id \in DOMAIN servers_ /\ servers_[wk.server_id].status = "UP"
             THEN wk'.rs = wk.server_id /\ wk'.pc # "idle"
             ELSE wk'.pc = "idle" /\ wk'.rs = NullServer]_vars

\* select_server is about to look at a backend that is DOWN while another
\* backend is UP
C15_Witness ==
    /\ wk.pc = "sel_reg"
    /\ wk.server_id \in DOMAIN servers_
    /\ servers_[wk.server_id].status = "DOWN"
    /\ \E other \in DOMAIN servers_ : servers_[other].status = "UP"

\* C16: set_status(id, status) changes nothing but the status field of
\* backend id: the registered ids, the weights, the other backends and the
\* ring entries stay as they are, so every tuple is mapped to the same id as
\* before and a backend set DOWN keeps its entries; for an id that is not
\* registered nothing changes.
C16_SetStatusFrame ==
    [][(ctl.pc \in {"idle", "ss_unlock"} /\ ctl'.pc \in {"ss_unlock", "idle"}
        /\ (ctl.pc = "ss_unlock" \/ ctl'.pc = "ss_unlock"))
       => /\ hash_ring_' = hash_ring_
          /\ \A t \in LBTuples, pad \in Pads :
               get_server(hash_ring_', TupleHash[t][pad], NullServer)
                 = get_server(hash_ring_, TupleHash[t][pad], NullServer)
          /\ DOMAIN servers_' = DOMAIN servers_
          /\ \A id \in DOMAIN servers_ :
               /\ servers_'[id].weight = servers_[id].weight
               /\ (ctl.pc = "ss_unlock" \/ id # ctl'.id) => servers_'[id] = servers_[id]]_vars

\* a registered backend with ring entries has just been set DOWN
C16_Witness ==
    /\ ctl.pc = "ss_unlock"
    /\ ctl.id \in DOMAIN servers_
    /\ servers_[ctl.id].status = "DOWN"
    /\ HashRingEntries(ctl.id) # {}

\* C17: after every completed add_server or remove_server the backends that
\* own at least one ring entry are exactly the ids of the registry map.
C17_RingMatchesRegistry ==
    RegistryQuiescent => HashRingBackends = DOMAIN servers_

\* C18 as stated: no thread ever holds two of the registry mutex, the ring
\* mutex and the session-table mutex.
C18_AtMostOneMutex ==
    \A th \in {"ctl", "wk"} : Cardinality(MutexesHeld(th)) <= 1

\* C18 as amended: a thread holds two mutexes only inside add_server and
\* remove_server, which take the ring mutex while holding the registry mutex
\* and release it first; the session-table mutex is never held together with
\* another mutex, and no thread takes the registry mutex or the session-table
\* mutex while it holds the ring mutex.
C18_NestedOnlyRegistryThenRing ==
    /\ [](\A th \in {"ctl", "wk"} :
            /\ Cardinality(MutexesHeld(th)) <= 2
            /\ "session" \in MutexesHeld(th) => MutexesHeld(th) = {"session"}
            /\ MutexesHeld(th) = {"registry", "ring"}
               => th = "ctl" /\ ctl.pc \in {"as_ring", "rs_ring"})
    /\ [][\A th \in {"ctl", "wk"} :
            /\ (reg_mutex' = th /\ reg_mutex # th) => hring_mutex # th
            /\ (sess_mutex' = th /\ sess_mutex # th) => hring_mutex # th
            /\ (hring_mutex # th /\ hring_mutex' = th /\ reg_mutex # th)
               => reg_mutex' # th]_vars

\* add_server holds the registry mutex and the ring mutex while the worker
\* holds the session-table mutex
C18_Witness ==
    /\ MutexesHeld("ctl") = {"registry", "ring"}
    /\ MutexesHeld("wk") = {"session"}

\* the worker reads the RealServer that its pointer designates
WkUsesBackend ==
    /\ wk.pc \in {"forward_hit", "create_lock", "forward_new", "accept_use"}
    /\ wk.rs # NullServer
    /\ wk'.pc # wk.pc

\* C19: under every interleaving with the control plane, the packet path
\* never reads a backend record through the pointer select_server or
\* get_server returned after remove_server has erased that record.
C19_StableBorrow ==
    [][WkUsesBackend => ~wk.dangling]_vars

(***************************************************************************)
(* Session table: claims                                                   *)
(***************************************************************************)
\* C12: session affinity: as long as the session of a tuple is neither
\* removed by remove nor expired by cleanup, it keeps the backend it was
\* created with, so every lookup of the tuple returns that backend, whatever
\* the registry, the session table and the packet path do in between.
C12_SessionAffinity ==
    [][\A t \in DOMAIN sessions_ \cap DOMAIN sessions_' :
         sessions_'[t].real_server_id = sessions_[t].real_server_id]_vars

\* C13: the gauge active_sessions equals the number of entries of the session
\* map after every sequence of create, lookup, update_stats, remove and
\* cleanup, the sequences handle_loadbalance produces included.
C13_ActiveSessionsGauge ==
    active_sessions = Cardinality(DOMAIN sessions_)

\* the sessions idle for strictly more than timeout_sec_ * 10^9 ns; the clock
\* never passes SessMaxSeconds + 1 seconds, so a longer timeout expires nothing
IdleBeyondTimeout ==
    {t \in DOMAIN sessions_ :
       /\ timeout_sec_ <= SessMaxSeconds + 1
       /\ clock - sessions_[t].last_active > timeout_sec_ * NsPerSec}

\* C14: cleanup erases exactly the sessions whose idle time is strictly
\* greater than timeout_seconds * 10^9 ns, leaves every other session as it
\* is, returns the number of sessions it erased and lowers active_sessions by
\* it; afterwards a lookup of an erased tuple finds nothing.
C14_CleanupExact ==
    [][lb_hist'[1] = "cleanup"
       => /\ DOMAIN sessions_' = DOMAIN sessions_ \ IdleBeyondTimeout
          /\ \A t \in DOMAIN sessions_' : sessions_'[t] = sessions_[t]
          /\ lb_hist'[2] = Cardinality(IdleBeyondTimeout)
          /\ active_sessions' = active_sessions - Cardinality(IdleBeyondTimeout)
          /\ \A t \in IdleBeyondTimeout : t \notin DOMAIN sessions_']_vars

\* cleanup has just erased a session and kept one that is idle for exactly
\* the timeout
C14_Witness ==
    /\ lb_hist[1] = "cleanup"
    /\ lb_hist[2] >= 1
    /\ timeout_sec_ = 1
    /\ \E t \in DOMAIN sessions_ : clock - sessions_[t].last_active = timeout_sec_ * NsPerSec

(***************************************************************************)
(* Protocol parser: claims                                                 *)
(***************************************************************************)
\* C20: for every frame for which parse returns true with EtherType IPv4,
\* l2_offset <= l3_offset <= l4_offset <= payload_offset <= total_len, and
\* payload_len is total_len - payload_offset without wrapping, whatever the
\* IPv4 ihl and the TCP data offset of the frame are.
C20_OffsetsOrdered ==
    (parse_ret = "true" /\ pkt.ether_type = EtherTypeIPv4)
    => /\ meta.l2_offset <= meta.l3_offset
       /\ meta.l3_offset <= meta.l4_offset
       /\ meta.l4_offset <= meta.payload_offset
       /\ meta.payload_offset <= meta.total_len
       /\ meta.payload_len = meta.total_len - meta.payload_offset

\* a frame whose declared IPv4 header, and TCP header when parse reads one,
\* lie inside the len bytes of the frame
HeadersFit(f) ==
    /\ f.len >= EthHeaderSize + ip_header_len(f)
    /\ (f.protocol = ProtoTCP /\ f.len >= EthHeaderSize + ip_header_len(f) + TcpHeaderSize)
       => f.len >= EthHeaderSize + ip_header_len(f) + tcp_header_len(f)

\* C21: parse returns true only if len >= 14 and, for EtherType IPv4,
\* len >= 14 + ihl*4 with the declared header lengths inside len; it returns
\* true for every such frame whose IPv4 header is at least the 20 bytes of
\* IPv4Header, and for every frame of at least 14 bytes that is not IPv4, with
\* ether_type, l2_offset and l3_offset filled in.
C21_ParseContract ==
    parse_ret # "unparsed"
    => /\ parse_ret = "true"
          => /\ pkt.len >= EthHeaderSize
             /\ pkt.ether_type = EtherTypeIPv4 => HeadersFit(pkt)
       /\ (pkt.len >= EthHeaderSize /\ pkt.ether_type # EtherTypeIPv4)
          => /\ parse_ret = "true"
             /\ meta.ether_type = pkt.ether_type
             /\ meta.l2_offset = 0
             /\ meta.l3_offset = EthHeaderSize
       /\ (pkt.len >= EthHeaderSize /\ pkt.ether_type = EtherTypeIPv4
           /\ ip_header_len(pkt) >= IPv4HeaderSize /\ HeadersFit(pkt))
          => parse_ret = "true"

ProcessedPacket == running_ /\ stats_'.rx_packets = stats_.rx_packets + 1

\* the five-tuple of the frame process_packet was last given
PacketTuple(p) == to_five_tuple(p.f, FlowOf(p.f))

\* the frame is a TCP or UDP packet to the VIP that the parser accepts
LoadBalanced(p) ==
    /\ p.f.len >= EthHeaderSize
    /\ p.f.ether_type = EtherTypeIPv4
    /\ parse_result(p.f) = "true"
    /\ p.f.protocol \in {ProtoTCP, ProtoUDP}
    /\ p.to_vip

\* the session table holds a session of the tuple whose backend is registered
UsableSession(t) ==
    t \in DOMAIN sessions_ /\ sessions_[t].real_server_id \in DOMAIN servers_

\* C28: a TCP or UDP packet to the VIP with no usable session, for which
\* select_server returns none, makes process_packet return false, adds
\* exactly one to dropped_packets, leaves forwarded_packets and tx_packets
\* as they were and creates no session.
C28_NoBackendDrop ==
    [][(/\ ProcessedPacket
        /\ LoadBalanced(pp')
        /\ ~UsableSession(PacketTuple(pp'))
        /\ \A pad \in Pads : select_server(PacketTuple(pp'), pad) = NullServer)
       => /\ pp'.ret = FALSE
          /\ stats_'.dropped_packets = stats_.dropped_packets + 1
          /\ stats_'.forwarded_packets = stats_.forwarded_packets
          /\ stats_'.tx_packets = stats_.tx_packets
          /\ DOMAIN sessions_' = DOMAIN sessions_
          /\ active_sessions' = active_sessions]_vars

\* a packet of a flow whose session outlived its backend was dropped for
\* want of a backend
C28_Witness ==
    /\ LoadBalanced(pp)
    /\ pp.path = "no_backend"
    /\ pp.ret = FALSE
    /\ stats_.dropped_packets = 1
    /\ stats_.forwarded_packets = 1
    /\ PacketTuple(pp) \in DOMAIN sessions_
    /\ ~UsableSession(PacketTuple(pp))

\* the frame is malformed: shorter than the Ethernet header, a truncated ARP
\* frame, or an IPv4 frame the parser rejects
Malformed(f) ==
    \/ f.len < EthHeaderSize
    \/ f.ether_type = EtherTypeARP /\ f.len < EthHeaderSize + ArpHeaderSize
    \/ f.ether_type = EtherTypeIPv4 /\ parse_result(f) = "false"

\* C29: every frame process_packet rejects as malformed adds exactly one to
\* dropped_packets, is not forwarded and creates no session.
C29_MalformedCounted ==
    [][(ProcessedPacket /\ Malformed(pp'.f))
       => /\ pp'.ret = FALSE
          /\ stats_'.dropped_packets = stats_.dropped_packets + 1
          /\ stats_'.forwarded_packets = stats_.forwarded_packets
          /\ stats_'.tx_packets = stats_.tx_packets
          /\ sessions_' = sessions_]_vars

\* ---- the L7 proxy ----

\* the Connections allocated and not deleted
LiveConnections == {c \in 1..Len(heap) : heap[c].frees = 0}

\* the keys of g_connections that map to the Connection at address c
KeysOf(c) == {fd \in DOMAIN g_connections : g_connections[fd] = c}

\* a step of handle_event or handle_accept: an event was handled
HandledEvent == UNCHANGED <<main_pc, g_running>> /\ ev'.fd # NoFd

\* C23: after every handled event each live Connection is mapped in
\* g_connections under exactly its client_fd and its backend_fd, every value
\* of the map points to a Connection that was not freed, the sockets of a
\* closed Connection are closed and its entries removed whatever
\* non-negative descriptors it had, and no Connection is freed twice.
C23_FdMapConsistent ==
    /\ \A c \in LiveConnections : KeysOf(c) = {heap[c].client_fd, heap[c].backend_fd}
    /\ \A fd \in DOMAIN g_connections : g_connections[fd] \in LiveConnections
    /\ main_pc = "running" =>
         open_fds = {g_epfd, g_listen_fd}
                      \cup UNION {{heap[c].client_fd, heap[c].backend_fd} : c \in LiveConnections}
    /\ \A c \in 1..Len(heap) : heap[c].frees <= 1

\* C24: once a read on the backend descriptor of a Connection returned 0,
\* the proxy eventually closes the client side and tears the Connection
\* down, and active_sessions returns to its value before the accept.
C24_BackendCloseTearsDown ==
    \A c \in 1..ProxyMaxConns :
        (c <= Len(heap) /\ heap[c].backend_eof)
            ~> (c <= Len(heap) /\ heap[c].frees > 0 /\ heap[c].client_fd \notin open_fds)

\* C25: the client's FIN tears the whole Connection down in every state of
\* the Connection, also while the connect to the backend is pending; the
\* backend's FIN alone never closes the client side.
C25_HalfClosePolicy ==
    [][(HandledEvent /\ ev'.conn \in LiveConnections)
       => /\ ev'.kind = "client_fin" => heap'[ev'.conn].frees = 1
          /\ ev'.kind = "backend_fin"
               => /\ heap'[ev'.conn].frees = 0
                  /\ heap[ev'.conn].client_fd \in open_fds']_vars

\* C26: EPOLLERR on either descriptor of a Connection, or a read or write
\* failure other than EAGAIN, closes both sockets of that Connection,
\* removes both entries and frees it, and leaves the other Connections, the
\* listener and the running flag as they were.
C26_ErrorClosesOnlyAffected ==
    [][(/\ HandledEvent
        /\ ev'.conn \in LiveConnections
        /\ ev'.kind \in {"epollerr", "io_error"})
       => LET c == ev'.conn
              fds == {heap[c].client_fd, heap[c].backend_fd}
          IN /\ fds \cap open_fds' = {}
             /\ fds \cap DOMAIN g_connections' = {}
             /\ heap'[c].frees = 1
             /\ \A d \in LiveConnections \ {c} :
                    /\ heap'[d] = heap[d]
                    /\ \A fd \in KeysOf(d) :
                           fd \in DOMAIN g_connections' /\ g_connections'[fd] = d
             /\ open_fds' = open_fds \ fds
             /\ g_listen_fd \in open_fds' /\ g_listen_fd \in epoll_fds'
             /\ g_running' = g_running]_vars

\* C27: when select_server returns none in handle_accept, the client socket
\* is closed, no Connection is allocated, no descriptor is added to the map
\* or to epoll, active_sessions and total_sessions stay, and the drop
\* counter grows by one.
C27_NoBackendAccept ==
    [][(HandledEvent /\ ev'.kind = "no_backend")
       => /\ open_fds' = open_fds
          /\ heap' = heap
          /\ g_connections' = g_connections
          /\ epoll_fds' = epoll_fds
          /\ g_stats'.active_sessions = g_stats.active_sessions
          /\ g_stats'.total_sessions = g_stats.total_sessions
          /\ g_stats'.dropped_packets = g_stats.dropped_packets + 1]_vars

\* C30: when main has returned after the running flag went false, every
\* socket is closed: the listener and the client and backend descriptor of
\* every Connection.
C30_SocketsClosedAtExit ==
    main_pc = "exited" => open_fds \ {g_epfd} = {}

\* ---- MPMC slot sequences and bounds ----

MPMCSlots == 0..(MPMCSize - 1)

MPMCOthersIdle(t) == \A u \in Threads \ {t} : m_pc[u] = "idle"

\* C35: in every reachable state 0 <= tail - head <= Size; and with no other
\* call in flight a push that loaded the current tail returns false exactly
\* when Size items are stored, so Size items can be stored, not Size - 1.
C35_MPMCBounds ==
    /\ [](0 <= mpmc_size /\ mpmc_size <= MPMCSize)
    /\ [][\A t \in Threads :
            (/\ MPMCOthersIdle(t)
             /\ m_pc[t] = "p_seq"
             /\ m_pos[t] = mpmc_tail
             /\ m_pc'[t] # "p_seq")
            => (MPMCReturnsFalse(t) <=> mpmc_size = mpmc_capacity)]_vars

\* Size items are stored, nothing else is in flight, and a push is about to
\* find the queue full
C35_Witness ==
    \E t \in Threads :
        /\ MPMCOthersIdle(t)
        /\ m_pc[t] = "p_seq"
        /\ m_pos[t] = mpmc_tail
        /\ mpmc_size = MPMCSize

\* ---- the session table: touch on lookup ----

\* the sessions that were active less than the timeout ago
ActiveWithinTimeout ==
    {t \in DOMAIN sessions_ : (clock - sessions_[t].last_active) \div NsPerSec < timeout_sec_}

\* C33: lookup(t) on a present tuple sets last_active of that session to now
\* and returns a copy of it; update_stats touches it as well; a session
\* touched less than the timeout ago is not removed by cleanup; lookup and
\* update_stats on an absent tuple change neither the map nor a counter.
C33_TouchOnLookup ==
    [][/\ lb_hist'[1] = "lookup"
          => LET t == lb_hist'[2]
             IN /\ lb_hist'[3] <=> t \in DOMAIN sessions_
                /\ active_sessions' = active_sessions
                /\ IF t \in DOMAIN sessions_
                   THEN /\ sessions_' = [sessions_ EXCEPT ![t].last_active = clock]
                        /\ lb_hist'[4] = sessions_'[t]
                   ELSE sessions_' = sessions_
       /\ lb_hist'[1] = "update_stats"
          => LET t == lb_hist'[2]
             IN /\ active_sessions' = active_sessions
                /\ IF t \in DOMAIN sessions_
                   THEN /\ DOMAIN sessions_' = DOMAIN sessions_
                        /\ sessions_'[t].last_active = clock
                        /\ \A u \in DOMAIN sessions_ \ {t} : sessions_'[u] = sessions_[u]
                   ELSE sessions_' = sessions_
       /\ lb_hist'[1] = "cleanup"
          => \A t \in ActiveWithinTimeout :
                t \in DOMAIN sessions_' /\ sessions_'[t] = sessions_[t]]_vars

\* cleanup has just erased a session and kept one that was last active after
\* the start of the clock and less than the timeout ago
C33_Witness ==
    /\ lb_hist[1] = "cleanup"
    /\ lb_hist[2] >= 1
    /\ \E t \in ActiveWithinTimeout :
          /\ sessions_[t].last_active > 0
          /\ sessions_[t].last_active < clock

\* ---- the registry mutex and the ring mutex ----

LockHeld(th) == {m \in LockMutexes : lk_owner[m] = th}
\* th is inside lock_guard's constructor and the mutex is taken
LockWaits(th, m) ==
    /\ lk_call[th].todo # <<>>
    /\ Head(lk_call[th].todo) = <<"lock", m>>
    /\ lk_owner[m] # Unlocked
\* the thread th waits for, or th itself when it does not wait
LockWaitsFor(th) ==
    IF \E m \in LockMutexes : LockWaits(th, m)
    THEN lk_owner[CHOOSE m \in LockMutexes : LockWaits(th, m)]
    ELSE th
RECURSIVE LockWaitChain(_, _)
LockWaitChain(th, n) == IF n = 0 THEN th ELSE LockWaitsFor(LockWaitChain(th, n - 1))

C39_AddMonotone ==
    [][ring_op'[1] = "add_node"
       => \A t \in Tuples, pad \in Pads :
            LET before == get_server(ring_, TupleHash[t][pad], RingNoId)
                after == get_server(ring_', TupleHash[t][pad], RingNoId)
            IN /\ after.ret
               /\ \/ after.server_id = ring_op'[2]
                  \/ before.ret /\ after.server_id = before.server_id]_vars

\* B has just been added onto a position that held an entry of another
\* backend, some tuple is mapped to B and another to a backend that was there
\* before
C39_Witness ==
    /\ ring_op[1] = "add_node"
    /\ ring_op[4]
    /\ \E t \in Tuples, pad \in Pads :
         get_server(ring_, TupleHash[t][pad], RingNoId).server_id = ring_op[2]
    /\ \E t \in Tuples, pad \in Pads :
         get_server(ring_, TupleHash[t][pad], RingNoId).server_id # ring_op[2]

\* ---- the packet path: a session goes before the ring ----

\* the call went on to select_server
RingConsulted(p) == p.path \in {"new", "no_backend", "forward_failed"}

C31_NoByteDiscarded ==
    [][(HandledEvent /\ ev'.kind = "short_write")
       => \/ heap'[ev'.conn].frees >= 1
          \/ heap'[ev'.conn].buf_len > 0]_vars

\* ---- the proxy: the backend connect ----

\* C32: a Connection starts with backend_connected false; backend_connected
\* of a Connection becomes true only in the handling of an event with
\* EPOLLOUT on the backend descriptor of that Connection, and stays true as
\* long as the Connection lives; bytes are read from a client descriptor and
\* written to a backend only in the handling of an event on the client
\* descriptor of a live Connection whose backend_connected is true.
C32_ConnectGating ==
    [][HandledEvent
       => /\ ev'.kind = "accepted" => ~heap'[ev'.conn].backend_connected
          /\ \A c \in LiveConnections :
               /\ (heap[c].backend_connected /\ heap'[c].frees = 0)
                  => heap'[c].backend_connected
               /\ (~heap[c].backend_connected /\ heap'[c].backend_connected)
                  => ev'.conn = c /\ ev'.fd = heap[c].backend_fd /\ ev'.out
          /\ g_stats'.rx_packets > g_stats.rx_packets
             => /\ ev'.conn \in LiveConnections
                /\ heap[ev'.conn].backend_connected
                /\ ev'.fd = heap[ev'.conn].client_fd]_vars

\* ---- the proxy: the session counters ----

\* the Connections deleted by the step (a second delete of one included)
FreedByStep ==
    {c \in 1..Len(heap) : heap'[c].frees > heap[c].frees}

\* C38: after every handled event active_sessions is the number of live
\* Connections, which is half the number of entries of g_connections, and it
\* is never below zero; a step increments it exactly when it creates a
\* Connection and decrements it exactly when it frees one that was live;
\* total_sessions never decreases.
C38_SessionAccounting ==
    /\ [](/\ g_stats.active_sessions = Cardinality(LiveConnections)
          /\ Cardinality(DOMAIN g_connections) = 2 * Cardinality(LiveConnections)
          /\ g_stats.active_sessions >= 0)
    /\ [][/\ g_stats'.active_sessions > g_stats.active_sessions
             <=> Len(heap') > Len(heap)
          /\ g_stats'.active_sessions < g_stats.active_sessions
             <=> FreedByStep # {}
          /\ FreedByStep \subseteq LiveConnections
          /\ g_stats'.active_sessions - g_stats.active_sessions \in {0 - 1, 0, 1}
          /\ g_stats'.total_sessions >= g_stats.total_sessions]_vars

\* ---- the proxy: events of one batch ----

\* C37: an event of a batch is applied only to the Connection it was
\* generated for: when that Connection was torn down earlier in the batch
\* the event is ignored, and it is never applied to a Connection created
\* later in the batch under the same descriptor number.
C37_EventsReachOwnConnection ==
    [][(batch # NoBatch /\ batch' = NoBatch)
       => /\ ev'.conn \in {0, batch.conn}
          /\ heap[batch.conn].frees > 0
             => /\ ev'.conn = 0
                /\ UNCHANGED <<heap, g_connections, g_stats, open_fds, epoll_fds>>]_vars

====
